---- MODULE Spec2Model ----
(***************************************************************************)
(* GradCafe scrape / clean / report pipeline (module_2).                   *)
(*                                                                         *)
(* Python strings are modelled as sequences of one-character strings, so   *)
(* that the regular expressions and string methods of the cleaner act on   *)
(* the characters themselves.  Python values that are not strings are the  *)
(* sentinels PyNone and PyFloat; an exception escaping a field parser is   *)
(* the value Raise.                                                        *)
(***************************************************************************)
EXTENDS Integers, Sequences, FiniteSets, TLC

VARIABLES
    \* GradCafeDataCleaner
    raw_data,        \* argument of the running / last clean_data call
    cleaned_data,    \* self.cleaned_data
    cleaning_stats,  \* self.cleaning_stats (the three counters)
    clean_pc,        \* "idle" | "loop": position inside clean_data
    clean_i,         \* loop index of clean_data (1-based)
    clean_calls,     \* number of clean_data calls that returned
    fed_back         \* TRUE when the running / last call was given the previous output

cleanerVars == <<raw_data, cleaned_data, cleaning_stats, clean_pc, clean_i,
                 clean_calls, fed_back>>

VARIABLES
    \* GradCafeApplication.run_full_pipeline and the files it works on
    pipe_pc,         \* "off" | "scrape" | "clean" | "cleaning" | "report" | "done"
    phase_log,       \* the phases started so far, in order
    scraped_data,    \* self.scraper.scraped_data
    raw_file,        \* raw_applicant_data.json
    clean_file,      \* applicant_data.json
    report_file,     \* data_summary_report.json
    scrape_ok,       \* what scrape_data() returned: "none" | "ok" | "fail"
    clean_ok,        \* what clean_data() returned
    report_ok,       \* whether generate_summary_report() wrote a report
    result           \* what run_full_pipeline returned: "none" | "True" | "False"

pipeVars == <<pipe_pc, phase_log, scraped_data, raw_file, clean_file, report_file,
              scrape_ok, clean_ok, report_ok, result>>

VARIABLES
    \* GradCafeScraper.scrape_data: the pagination loop
    scr_pc,          \* "idle" | "loop" | "done": position inside scrape_data
    max_entries,     \* argument of the call
    page_num,        \* local page_num
    total_entries,   \* local total_entries
    scraped_len,     \* len(self.scraped_data)
    returned_len,    \* length of the list the call returned
    robots_ok,       \* what _check_robots_txt returned
    req_count,       \* number of _scrape_page calls made by this call
    req_last,        \* page number of the last _scrape_page call
    last_yield,      \* number of records the last _scrape_page call returned
    scrape_calls     \* number of scrape_data calls made on this scraper

scraperVars == <<scr_pc, max_entries, page_num, total_entries, scraped_len,
                 returned_len, robots_ok, req_count, req_last, last_yield, scrape_calls>>

VARIABLES
    \* GradCafeScraper._scrape_page: the row loop of one page
    page_pc,         \* "idle" | "loop" | "done": position inside _scrape_page
    fetch,           \* what the request for the page came back with
    rows,            \* table.find_all('tr')[1:]
    row_i,           \* local i
    page_data,       \* local page_data
    extract_calls    \* the _extract_entry_data calls made: row, detail row, outcome

pageVars == <<page_pc, fetch, rows, row_i, page_data, extract_calls>>

VARIABLES
    \* one method of GradCafeDataCleaner called on its own
    parser,          \* the name of the method called last, "none" before any call
    parser_arg,      \* its argument
    parser_res       \* what it returned

parserVars == <<parser, parser_arg, parser_res>>

VARIABLES
    \* module_4: one Order and the last method called on it
    order,           \* the Order object: [pizzas, paid]
    order_call,      \* the name of the method called last, "none" before any call
    order_arg,       \* the argument of that call, PyNone for a call without one
    order_res        \* what the call returned, or the exception it raised

orderVars == <<order, order_call, order_arg, order_res>>

vars == <<cleanerVars, pipeVars, scraperVars, pageVars, parserVars, orderVars>>

-----------------------------------------------------------------------------
(* Bounds of the model *)

MaxRecords == 2
MaxTextLen == 3
MaxCleanCalls == 2
MaxPageRecords == 1
MaxSmallTarget == 3
MaxRows == 3

-----------------------------------------------------------------------------
(* Characters and Python values *)

Digits == {"0", "1", "2", "3", "4", "5", "6", "7", "8", "9"}
DigitSeq == <<"0", "1", "2", "3", "4", "5", "6", "7", "8", "9">>
UpperSeq == <<"A", "B", "C", "D", "E", "F", "G", "H", "I", "J", "K", "L", "M",
              "N", "O", "P", "Q", "R", "S", "T", "U", "V", "W", "X", "Y", "Z">>
LowerSeq == <<"a", "b", "c", "d", "e", "f", "g", "h", "i", "j", "k", "l", "m",
              "n", "o", "p", "q", "r", "s", "t", "u", "v", "w", "x", "y", "z">>
Uppers == {UpperSeq[i] : i \in 1..26}
Lowers == {LowerSeq[i] : i \in 1..26}
LowerOf == [c \in Uppers |-> LowerSeq[CHOOSE i \in 1..26 : UpperSeq[i] = c]]
UpperOf == [c \in Lowers |-> UpperSeq[CHOOSE i \in 1..26 : LowerSeq[i] = c]]

IsDigit(c) == c \in Digits
IsLetter(c) == c \in Uppers \cup Lowers
\* \s of the re module and the characters str.strip() removes
IsSpace(c) == c \in {" ", "\t", "\n"}
\* \w of the re module
IsWord(c) == IsLetter(c) \/ IsDigit(c) \/ c = "_"

ToLower(c) == IF c \in Uppers THEN LowerOf[c] ELSE c
ToUpper(c) == IF c \in Lowers THEN UpperOf[c] ELSE c

PyNone == <<"None">>
PyFloat == <<"float">>
Raise == <<"raise">>
IsStr(v) == v \notin {PyNone, PyFloat, Raise}
\* truth value of a Python value: '' and None are false
Truthy(v) == v # <<>> /\ v # PyNone

\* str.lower()
Lower(s) == [i \in 1..Len(s) |-> ToLower(s[i])]
\* str.title(): a letter is upper-cased when it starts a run of letters
Title(s) ==
    [i \in 1..Len(s) |->
        IF ~IsLetter(s[i]) THEN s[i]
        ELSE IF i > 1 /\ IsLetter(s[i - 1]) THEN ToLower(s[i])
        ELSE ToUpper(s[i])]

RECURSIVE LStrip(_)
LStrip(s) == IF s # <<>> /\ IsSpace(Head(s)) THEN LStrip(Tail(s)) ELSE s
RECURSIVE RStrip(_)
RStrip(s) ==
    IF s # <<>> /\ IsSpace(s[Len(s)]) THEN RStrip(SubSeq(s, 1, Len(s) - 1)) ELSE s
\* str.strip()
Strip(s) == RStrip(LStrip(s))

\* first index >= from at which w occurs in s, 0 when there is none
FindFrom(s, w, from) ==
    LET hits == {i \in from..(Len(s) - Len(w) + 1) : SubSeq(s, i, i + Len(w) - 1) = w}
    IN IF hits = {} THEN 0 ELSE CHOOSE i \in hits : \A j \in hits : i <= j
\* last index at which w occurs in s, 0 when there is none
FindLast(s, w) ==
    LET hits == {i \in 1..(Len(s) - Len(w) + 1) : SubSeq(s, i, i + Len(w) - 1) = w}
    IN IF hits = {} THEN 0 ELSE CHOOSE i \in hits : \A j \in hits : j <= i
\* w in s
Contains(s, w) == FindFrom(s, w, 1) # 0
ContainsAny(s, ws) == \E w \in ws : Contains(s, w)

\* length of the run of digits / whitespace that starts at index i
RECURSIVE DigitRun(_, _)
DigitRun(s, i) == IF i <= Len(s) /\ IsDigit(s[i]) THEN 1 + DigitRun(s, i + 1) ELSE 0
RECURSIVE SpaceRun(_, _)
SpaceRun(s, i) == IF i <= Len(s) /\ IsSpace(s[i]) THEN 1 + SpaceRun(s, i + 1) ELSE 0
\* s[i .. i+n-1] exists and consists of digits / of word characters
AllDigits(s, i, n) == i >= 1 /\ i + n - 1 <= Len(s) /\ \A j \in i..(i + n - 1) : IsDigit(s[j])
AllWord(s, i, n) == i >= 1 /\ i + n - 1 <= Len(s) /\ \A j \in i..(i + n - 1) : IsWord(s[j])
CharAt(s, i) == IF i >= 1 /\ i <= Len(s) THEN s[i] ELSE "<eos>"

Min(a, b) == IF a <= b THEN a ELSE b
Least(S) == CHOOSE i \in S : \A j \in S : i <= j

\* int() of a run of digits
RECURSIVE ToNat(_)
ToNat(ds) ==
    IF ds = <<>> THEN 0
    ELSE 10 * ToNat(SubSeq(ds, 1, Len(ds) - 1))
         + (CHOOSE d \in 0..9 : DigitSeq[d + 1] = ds[Len(ds)])
\* str() of a natural number
RECURSIVE NatToStr(_)
NatToStr(n) ==
    IF n < 10 THEN <<DigitSeq[n + 1]>>
    ELSE NatToStr(n \div 10) \o <<DigitSeq[(n % 10) + 1]>>
RECURSIVE Pow10(_)
Pow10(k) == IF k = 0 THEN 1 ELSE 10 * Pow10(k - 1)
\* a / b rounded to the nearest integer (the inputs of the model never tie)
RoundDiv(a, b) == (2 * a + b) \div (2 * b)
\* str.zfill(w)
RECURSIVE ZFill(_, _)
ZFill(s, w) == IF Len(s) >= w THEN s ELSE ZFill(<<"0">> \o s, w)

-----------------------------------------------------------------------------
(* clean.py: field parsers of GradCafeDataCleaner *)

\* re.sub(r'<[^>]+>', '', text): a tag is "<", one or more characters other
\* than ">", and the first ">" that follows
RECURSIVE RemoveTags(_)
RemoveTags(s) ==
    IF s = <<>> THEN <<>>
    ELSE IF Head(s) = "<" /\ FindFrom(s, <<">">>, 2) >= 3
         THEN RemoveTags(SubSeq(s, FindFrom(s, <<">">>, 2) + 1, Len(s)))
         ELSE <<Head(s)>> \o RemoveTags(Tail(s))

\* re.sub(r'\s+', ' ', text)
RECURSIVE CollapseSpace(_)
CollapseSpace(s) ==
    IF s = <<>> THEN <<>>
    ELSE IF IsSpace(Head(s)) THEN <<" ">> \o CollapseSpace(LStrip(s))
         ELSE <<Head(s)>> \o CollapseSpace(Tail(s))

\* the characters kept by re.sub(r'[^\w\s\-.,;:()&/]', '', text)
AllowedChar(c) ==
    IsWord(c) \/ IsSpace(c) \/ c \in {"-", ".", ",", ";", ":", "(", ")", "&", "/"}

RemoveSpecial(s) == SelectSeq(s, AllowedChar)

\* the three substitutions of _clean_text, in the order of the code
CleanTextSteps(s) == RemoveSpecial(Strip(CollapseSpace(RemoveTags(s))))

\* _clean_text
CleanText(text) ==
    IF ~Truthy(text) THEN <<>>
    ELSE IF ~IsStr(text) THEN Raise          \* text.strip() of a non-string
    ELSE IF Strip(text) = <<>> THEN <<>>
    ELSE CleanTextSteps(text)

\* the words and markers the parsers and the extractor look for
Word ==
    [accept |-> <<"a", "c", "c", "e", "p", "t">>,
     admit |-> <<"a", "d", "m", "i", "t">>,
     reject |-> <<"r", "e", "j", "e", "c", "t">>,
     den |-> <<"d", "e", "n">>,
     wait |-> <<"w", "a", "i", "t">>,
     list |-> <<"l", "i", "s", "t">>,
     interview |-> <<"i", "n", "t", "e", "r", "v", "i", "e", "w">>,
     phd |-> <<"p", "h", "d">>,
     ph_dot_d |-> <<"p", "h", ".", "d">>,
     doctorate |-> <<"d", "o", "c", "t", "o", "r", "a", "t", "e">>,
     doctoral |-> <<"d", "o", "c", "t", "o", "r", "a", "l">>,
     masters |-> <<"m", "a", "s", "t", "e", "r", "s">>,
     master |-> <<"m", "a", "s", "t", "e", "r">>,
     ms |-> <<"m", "s">>,
     m_dot_s |-> <<"m", ".", "s">>,
     ma |-> <<"m", "a">>,
     m_dot_a |-> <<"m", ".", "a">>,
     bachelor |-> <<"b", "a", "c", "h", "e", "l", "o", "r">>,
     undergrad |-> <<"u", "n", "d", "e", "r", "g", "r", "a", "d">>,
     bs |-> <<"b", "s">>,
     ba |-> <<"b", "a">>,
     fall |-> <<"f", "a", "l", "l">>,
     autumn |-> <<"a", "u", "t", "u", "m", "n">>,
     spring |-> <<"s", "p", "r", "i", "n", "g">>,
     summer |-> <<"s", "u", "m", "m", "e", "r">>,
     winter |-> <<"w", "i", "n", "t", "e", "r">>,
     international |-> <<"i", "n", "t", "e", "r", "n", "a", "t", "i", "o", "n", "a", "l">>,
     foreign |-> <<"f", "o", "r", "e", "i", "g", "n">>,
     domestic |-> <<"d", "o", "m", "e", "s", "t", "i", "c">>,
     american |-> <<"a", "m", "e", "r", "i", "c", "a", "n">>,
     usa |-> <<"u", "s", "a">>,
     us |-> <<"u", "s">>,
     on |-> <<"o", "n">>,
     result |-> <<"r", "e", "s", "u", "l", "t">>,
     Domestic |-> <<"D", "o", "m", "e", "s", "t", "i", "c">>,
     GPA |-> <<"G", "P", "A">>,
     GRE |-> <<"G", "R", "E">>,
     V |-> <<"V">>,
     Q |-> <<"Q">>,
     AW |-> <<"A", "W">>,
     accepted |-> <<"a", "c", "c", "e", "p", "t", "e", "d">>,
     rejected |-> <<"r", "e", "j", "e", "c", "t", "e", "d">>]

\* the values the parsers and the extractor write
Label ==
    [Accepted |-> <<"A", "c", "c", "e", "p", "t", "e", "d">>,
     Rejected |-> <<"R", "e", "j", "e", "c", "t", "e", "d">>,
     Waitlisted |-> <<"W", "a", "i", "t", "l", "i", "s", "t", "e", "d">>,
     Interview |-> <<"I", "n", "t", "e", "r", "v", "i", "e", "w">>,
     PhD |-> <<"P", "h", "D">>,
     Masters |-> <<"M", "a", "s", "t", "e", "r", "s">>,
     Bachelors |-> <<"B", "a", "c", "h", "e", "l", "o", "r", "s">>,
     Fall |-> <<"F", "a", "l", "l">>,
     Spring |-> <<"S", "p", "r", "i", "n", "g">>,
     Summer |-> <<"S", "u", "m", "m", "e", "r">>,
     Winter |-> <<"W", "i", "n", "t", "e", "r">>,
     International |-> <<"I", "n", "t", "e", "r", "n", "a", "t", "i", "o", "n", "a", "l">>,
     American |-> <<"A", "m", "e", "r", "i", "c", "a", "n">>,
     Unknown |-> <<"U", "n", "k", "n", "o", "w", "n">>]

\* a cascade that tests interview before wait and list
DecisionLabel_mutant(status) ==
    IF ContainsAny(status, {Word.accept, Word.admit}) THEN Label.Accepted
    ELSE IF ContainsAny(status, {Word.reject, Word.den}) THEN Label.Rejected
    ELSE IF ContainsAny(status, {Word.interview}) THEN Label.Interview
    ELSE IF ContainsAny(status, {Word.wait, Word.list}) THEN Label.Waitlisted
    ELSE Title(status)
\* the keyword cascade of _standardize_decision_status on the lowered, stripped text
DecisionLabel(status) ==
    IF ContainsAny(status, {Word.accept, Word.admit}) THEN Label.Accepted
    ELSE IF ContainsAny(status, {Word.reject, Word.den}) THEN Label.Rejected
    ELSE IF ContainsAny(status, {Word.wait, Word.list}) THEN Label.Waitlisted
    ELSE IF ContainsAny(status, {Word.interview}) THEN Label.Interview
    ELSE Title(status)

\* _standardize_decision_status
StandardizeDecisionStatus(status) ==
    IF ~Truthy(status) THEN <<>>
    ELSE IF ~IsStr(status) THEN Raise        \* status.lower() of a non-string
    ELSE DecisionLabel(Strip(Lower(status)))

NoMatch == <<>>

\* (\d{1,2})\s+(\w{3})\s+(\d{4}) matched at index i: <<day, month, year>>
MatchDayMonYear(s, i) ==
    LET d == Min(DigitRun(s, i), 2)
        w1 == SpaceRun(s, i + d)
        m == i + d + w1
        w2 == SpaceRun(s, m + 3)
        y == m + 3 + w2
    IN IF d >= 1 /\ w1 >= 1 /\ AllWord(s, m, 3) /\ w2 >= 1 /\ AllDigits(s, y, 4)
       THEN <<SubSeq(s, i, i + d - 1), SubSeq(s, m, m + 2), SubSeq(s, y, y + 3)>>
       ELSE NoMatch

\* (\w{3})\s+(\d{1,2}),?\s+(\d{4}) matched at index i: <<month, day, year>>
MatchMonDayYear(s, i) ==
    LET w1 == SpaceRun(s, i + 3)
        dd == i + 3 + w1
        d == Min(DigitRun(s, dd), 2)
        c == IF CharAt(s, dd + d) = "," THEN 1 ELSE 0
        w2 == SpaceRun(s, dd + d + c)
        y == dd + d + c + w2
    IN IF AllWord(s, i, 3) /\ w1 >= 1 /\ d >= 1 /\ w2 >= 1 /\ AllDigits(s, y, 4)
       THEN <<SubSeq(s, i, i + 2), SubSeq(s, dd, dd + d - 1), SubSeq(s, y, y + 3)>>
       ELSE NoMatch

\* (\d{1,2})/(\d{1,2})/(\d{4}) matched at index i: <<month, day, year>>
MatchSlashDate(s, i) ==
    LET a == Min(DigitRun(s, i), 2)
        b0 == i + a + 1
        b == Min(DigitRun(s, b0), 2)
        y == b0 + b + 1
    IN IF a >= 1 /\ CharAt(s, i + a) = "/" /\ b >= 1 /\ CharAt(s, b0 + b) = "/"
          /\ AllDigits(s, y, 4)
       THEN <<SubSeq(s, i, i + a - 1), SubSeq(s, b0, b0 + b - 1), SubSeq(s, y, y + 3)>>
       ELSE NoMatch

\* (\d{4})-(\d{1,2})-(\d{1,2}) matched at index i: <<year, month, day>>
MatchIsoDate(s, i) ==
    LET m0 == i + 5
        m == Min(DigitRun(s, m0), 2)
        d0 == m0 + m + 1
        d == Min(DigitRun(s, d0), 2)
    IN IF AllDigits(s, i, 4) /\ CharAt(s, i + 4) = "-" /\ m >= 1
          /\ CharAt(s, m0 + m) = "-" /\ d >= 1
       THEN <<SubSeq(s, i, i + 3), SubSeq(s, m0, m0 + m - 1), SubSeq(s, d0, d0 + d - 1)>>
       ELSE NoMatch

\* re.search: the match at the leftmost index that has one
SearchDayMonYear(s) ==
    LET at == {i \in 1..Len(s) : MatchDayMonYear(s, i) # NoMatch}
    IN IF at = {} THEN NoMatch ELSE MatchDayMonYear(s, Least(at))
SearchMonDayYear(s) ==
    LET at == {i \in 1..Len(s) : MatchMonDayYear(s, i) # NoMatch}
    IN IF at = {} THEN NoMatch ELSE MatchMonDayYear(s, Least(at))
SearchSlashDate(s) ==
    LET at == {i \in 1..Len(s) : MatchSlashDate(s, i) # NoMatch}
    IN IF at = {} THEN NoMatch ELSE MatchSlashDate(s, Least(at))
SearchIsoDate(s) ==
    LET at == {i \in 1..Len(s) : MatchIsoDate(s, i) # NoMatch}
    IN IF at = {} THEN NoMatch ELSE MatchIsoDate(s, Least(at))

\* a pattern loop that tries the two numeric patterns first
ReformatDate_mutant(s) ==
    LET p0 == SearchDayMonYear(s)
        p1 == SearchMonDayYear(s)
        p2 == SearchSlashDate(s)
        p3 == SearchIsoDate(s)
    IN IF p2 # NoMatch
       THEN ZFill(p2[2], 2) \o <<"/">> \o ZFill(p2[1], 2) \o <<"/">> \o p2[3]
       ELSE IF p3 # NoMatch THEN p3[3] \o <<"/">> \o p3[2] \o <<"/">> \o p3[1]
       ELSE IF p0 # NoMatch THEN p0[1] \o <<" ">> \o p0[2] \o <<" ">> \o p0[3]
       ELSE IF p1 # NoMatch THEN p1[2] \o <<" ">> \o p1[1] \o <<" ">> \o p1[3]
       ELSE s

\* the pattern loop of _clean_date on the cleaned text
ReformatDate(s) ==
    LET p0 == SearchDayMonYear(s)
        p1 == SearchMonDayYear(s)
        p2 == SearchSlashDate(s)
        p3 == SearchIsoDate(s)
    IN IF p0 # NoMatch THEN p0[1] \o <<" ">> \o p0[2] \o <<" ">> \o p0[3]
       ELSE IF p1 # NoMatch THEN p1[2] \o <<" ">> \o p1[1] \o <<" ">> \o p1[3]
       ELSE IF p2 # NoMatch
            THEN ZFill(p2[2], 2) \o <<"/">> \o ZFill(p2[1], 2) \o <<"/">> \o p2[3]
       ELSE IF p3 # NoMatch THEN p3[3] \o <<"/">> \o p3[2] \o <<"/">> \o p3[1]
       ELSE s

\* _clean_date
CleanDate(date_str) ==
    IF ~Truthy(date_str) THEN <<>>
    ELSE IF CleanText(date_str) = Raise THEN Raise
    ELSE ReformatDate(CleanText(date_str))

\* index of the first digit of s, 0 when it has none
FirstDigit(s) ==
    LET at == {i \in 1..Len(s) : IsDigit(s[i])}
    IN IF at = {} THEN 0 ELSE Least(at)

\* re.search(r'(\d+\.?\d*)', s) followed by float(): the value is n / 10^k
SearchDecimal(s) ==
    LET i == FirstDigit(s)
        a == DigitRun(s, i)
        dot == CharAt(s, i + a) = "."
        b == IF dot THEN DigitRun(s, i + a + 1) ELSE 0
    IN [n |-> ToNat(SubSeq(s, i, i + a - 1) \o SubSeq(s, i + a + 1, i + a + b)),
        k |-> b]

\* f"{h / 10^d:.{d}f}" of a value given in units of 10^-d
FormatFixed(h, d) ==
    NatToStr(h \div Pow10(d)) \o <<".">> \o ZFill(NatToStr(h % Pow10(d)), d)

\* the range test and rescaling of _clean_gpa on the first number of the text
GpaOfText(s) ==
    LET v == SearchDecimal(s)
    IN IF FirstDigit(s) = 0 THEN <<>>
       ELSE IF v.n <= 4 * Pow10(v.k) THEN FormatFixed(RoundDiv(v.n * 100, Pow10(v.k)), 2)
       ELSE IF v.n <= 10 * Pow10(v.k) THEN FormatFixed(RoundDiv(v.n * 40, Pow10(v.k)), 2)
       ELSE <<>>

\* _clean_gpa
CleanGpa(gpa_str) ==
    IF ~Truthy(gpa_str) THEN <<>>
    ELSE IF CleanText(gpa_str) = Raise THEN Raise
    ELSE GpaOfText(CleanText(gpa_str))

\* the range test of _clean_gre_score on the first integer of the text
GreOfText(s) ==
    LET score == ToNat(SubSeq(s, FirstDigit(s), FirstDigit(s) + DigitRun(s, FirstDigit(s)) - 1))
    IN IF FirstDigit(s) = 0 THEN <<>>
       ELSE IF 130 <= score /\ score <= 170 THEN NatToStr(score)
       ELSE IF 200 <= score /\ score <= 800 THEN NatToStr(score)
       ELSE <<>>

\* _clean_gre_score
CleanGreScore(score_str) ==
    IF ~Truthy(score_str) THEN <<>>
    ELSE IF CleanText(score_str) = Raise THEN Raise
    ELSE GreOfText(CleanText(score_str))

\* the range test of _clean_gre_aw on the first number of the text
AwOfText(s) ==
    LET v == SearchDecimal(s)
    IN IF FirstDigit(s) = 0 THEN <<>>
       ELSE IF v.n <= 6 * Pow10(v.k) THEN FormatFixed(RoundDiv(v.n * 10, Pow10(v.k)), 1)
       ELSE <<>>

\* _clean_gre_aw
CleanGreAw(aw_str) ==
    IF ~Truthy(aw_str) THEN <<>>
    ELSE IF CleanText(aw_str) = Raise THEN Raise
    ELSE AwOfText(CleanText(aw_str))

\* the keyword cascade of _clean_degree_type on the cleaned, lowered text
DegreeLabel(d) ==
    IF ContainsAny(d, {Word.phd, Word.ph_dot_d, Word.doctorate, Word.doctoral}) THEN Label.PhD
    ELSE IF ContainsAny(d, {Word.masters, Word.master, Word.ms, Word.m_dot_s, Word.ma, Word.m_dot_a})
         THEN Label.Masters
    ELSE IF ContainsAny(d, {Word.bachelor, Word.undergrad, Word.bs, Word.ba}) THEN Label.Bachelors
    ELSE Title(d)

\* _clean_degree_type
CleanDegreeType(degree_str) ==
    IF ~Truthy(degree_str) THEN <<>>
    ELSE IF CleanText(degree_str) = Raise THEN Raise
    ELSE DegreeLabel(Lower(CleanText(degree_str)))

\* a year pattern of any four digits, (\d{4})
YearOfText_mutant(s) ==
    LET at == {i \in 1..Len(s) : AllDigits(s, i, 4)}
    IN IF at = {} THEN <<>> ELSE SubSeq(s, Least(at), Least(at) + 3)
\* re.search(r'(20\d{2})', s)
YearOfText(s) ==
    LET at == {i \in 1..Len(s) :
                 CharAt(s, i) = "2" /\ CharAt(s, i + 1) = "0" /\ AllDigits(s, i + 2, 2)}
    IN IF at = {} THEN <<>> ELSE SubSeq(s, Least(at), Least(at) + 3)

SemesterOfText(s) ==
    IF ContainsAny(s, {Word.fall, Word.autumn}) THEN Label.Fall
    ELSE IF ContainsAny(s, {Word.spring}) THEN Label.Spring
    ELSE IF ContainsAny(s, {Word.summer}) THEN Label.Summer
    ELSE IF ContainsAny(s, {Word.winter}) THEN Label.Winter
    ELSE <<>>

\* _clean_semester_year
CleanSemesterYear(semester_year_str) ==
    IF ~Truthy(semester_year_str) THEN [semester |-> <<>>, year |-> <<>>]
    ELSE IF CleanText(semester_year_str) = Raise THEN [semester |-> Raise, year |-> Raise]
    ELSE [semester |-> SemesterOfText(Lower(CleanText(semester_year_str))),
          year |-> YearOfText(Lower(CleanText(semester_year_str)))]

\* clean_entry, "Clean international status"
CleanInternational(v) ==
    IF CleanText(v) = Raise THEN Raise
    ELSE IF Lower(CleanText(v)) \in {Word.international, Word.foreign} THEN Label.International
    ELSE IF Lower(CleanText(v)) \in {Word.domestic, Word.american, Word.usa, Word.us} THEN Label.American
    ELSE <<>>

\* clean_entry: gre_score.split('Q:')[-1].split(',')[0] if 'Q:' in gre_score else ''
QuantPart(gre_score) ==
    IF ~IsStr(gre_score) THEN Raise          \* 'Q:' in <non-string>
    ELSE IF ~Contains(gre_score, <<"Q", ":">>) THEN <<>>
    ELSE LET rest == SubSeq(gre_score, FindLast(gre_score, <<"Q", ":">>) + 2, Len(gre_score))
             comma == FindFrom(rest, <<",">>, 1)
         IN IF comma = 0 THEN rest ELSE SubSeq(rest, 1, comma - 1)

CleanGreQuant(gre_score) ==
    IF QuantPart(gre_score) = Raise THEN Raise ELSE CleanGreScore(QuantPart(gre_score))

-----------------------------------------------------------------------------
(* clean.py: records *)

\* a Python object that is not a dict, and the None that clean_entry returns
NonDict == [py_type |-> "float"]
NoEntry == [py_type |-> "NoneType"]
IsDict(e) == "py_type" \notin DOMAIN e

\* entry.get(key, '')
Get(entry, key) == IF key \in DOMAIN entry THEN entry[key] ELSE <<>>

\* the dictionary clean_entry builds, before validation
CleanedFields(entry) ==
    [program_name |-> CleanText(Get(entry, "program_name")),
     university |-> CleanText(Get(entry, "university")),
     comments |-> CleanText(Get(entry, "comments")),
     url |-> Get(entry, "url"),
     applicant_status |-> StandardizeDecisionStatus(Get(entry, "applicant_status")),
     date_added |-> CleanDate(Get(entry, "date_added")),
     acceptance_date |-> CleanDate(Get(entry, "acceptance_date")),
     rejection_date |-> CleanDate(Get(entry, "rejection_date")),
     semester |-> CleanSemesterYear(Get(entry, "semester_year")).semester,
     year |-> CleanSemesterYear(Get(entry, "semester_year")).year,
     international_american |-> CleanInternational(Get(entry, "international_american")),
     gpa |-> CleanGpa(Get(entry, "gpa")),
     gre_verbal |-> CleanGreScore(Get(entry, "gre_verbal")),
     gre_quantitative |-> CleanGreQuant(Get(entry, "gre_score")),
     gre_aw |-> CleanGreAw(Get(entry, "gre_aw")),
     degree_type |-> CleanDegreeType(Get(entry, "degree_type"))]

\* some field parser of clean_entry raised while the dictionary c was built
RaisedIn(c) == \E k \in DOMAIN c : k # "url" /\ c[k] = Raise

\* _validate_entry without the "strip() == ''" test
ValidateEntry_mutant(entry) ==
    \A field \in {"university", "program_name"} : Truthy(Get(entry, field))

\* _validate_entry
ValidateEntry(entry) ==
    \A field \in {"university", "program_name"} :
        Truthy(Get(entry, field)) /\ Strip(entry[field]) # <<>>

\* clean_entry whose except branch hands back the record built so far
ValidatedOrNone_keep(c) ==
    IF RaisedIn(c) THEN c
    ELSE IF ~ValidateEntry(c) THEN NoEntry
    ELSE c

\* clean_entry from "Validate entry" on, with the except branch: c is the
\* dictionary built by the try block
ValidatedOrNone(c) ==
    IF RaisedIn(c) THEN NoEntry
    ELSE IF ~ValidateEntry(c) THEN NoEntry
    ELSE c

\* clean_entry (entry.get of a non-dict raises at the first statement)
CleanEntry(entry) ==
    IF ~IsDict(entry) THEN NoEntry ELSE ValidatedOrNone(CleanedFields(entry))

-----------------------------------------------------------------------------
(* Inputs of the cleaner *)

RECURSIVE SeqsUpTo(_, _)
\* the sequences over S of length at most n
SeqsUpTo(S, n) ==
    IF n = 0 THEN {<<>>}
    ELSE LET shorter == SeqsUpTo(S, n - 1)
         IN shorter \cup {Append(q, x) : q \in shorter, x \in S}

TextAlphabet == {"a", " ", "@"}
TextInputs ==
    SeqsUpTo(TextAlphabet, MaxTextLen)
    \cup {<<"a", " ", "@", " ", "b">>, <<"<", "b", ">", "a", "<", "/", "b", ">">>, <<"a", "<", "b">>, <<"M", "I", "T">>,
          PyNone, PyFloat}
StatusInputs ==
    {<<"a", "c", "c", "e", "p", "t", "e", "d">>,
     <<"w", "a", "i", "t", " ", "l", "i", "s", "t", "e", "d">>,
     <<"f", "o", "o">>,
     <<"R", "e", "j", "e", "c", "t", "e", "d">>,
     <<"I", "n", "t", "e", "r", "v", "i", "e", "w">>,
     <<>>, PyNone, PyFloat}
DateInputs ==
    {<<"1", "5", " ", "J", "a", "n", " ", "2", "0", "2", "4">>,
     <<"J", "a", "n", " ", "1", "5", ",", " ", "2", "0", "2", "4">>,
     <<"1", "/", "1", "5", "/", "2", "0", "2", "4">>,
     <<"2", "0", "2", "4", "-", "0", "1", "-", "1", "5">>,
     <<"1", "2", " ", "J", "a", "n">>,
     <<>>, PyNone, PyFloat}
SemesterYearInputs ==
    {<<"F", "a", "l", "l", " ", "2", "0", "2", "5">>,
     <<"S", "p", "r", "i", "n", "g">>,
     <<"2", "0", "2", "4">>,
     <<"F", "a", "l", "l", " ", "1", "9", "9", "9">>,
     <<>>, PyNone, PyFloat}
InternationalInputs ==
    {<<"I", "n", "t", "e", "r", "n", "a", "t", "i", "o", "n", "a", "l">>,
     <<"A", "m", "e", "r", "i", "c", "a", "n">>,
     <<"D", "o", "m", "e", "s", "t", "i", "c">>,
     <<"O", "t", "h", "e", "r">>,
     <<>>, PyNone, PyFloat}
GpaInputs ==
    {<<"3", ".", "7", "5">>,
     <<"8", ".", "0">>,
     <<"1", "1">>,
     <<"4", ".", "0">>,
     <<>>, PyNone, PyFloat}
GreInputs ==
    {<<"1", "6", "5">>,
     <<"7", "8", "0">>,
     <<"9", "9", "9">>,
     <<"0", "1", "6", "5">>,
     <<>>, PyNone, PyFloat}
GreScoreInputs ==
    {<<"V", ":", "1", "6", "5", ",", " ", "Q", ":", "1", "6", "0">>,
     <<"V", ":", "1", "6", "5", ",", " ", "Q", ":">>,
     <<"Q", ":", "9", "9", "9">>,
     <<>>, PyNone, PyFloat}
GreAwInputs ==
    {<<"4", ".", "5">>,
     <<"6", ".", "0">>,
     <<"7">>,
     <<>>, PyNone, PyFloat}
DegreeInputs ==
    {<<"P", "h", "D">>,
     <<"M", "S">>,
     <<"O", "t", "h", "e", "r">>,
     <<>>, PyNone, PyFloat}

\* the raw record of the listing "MIT / Biomedical Engineering Masters"
BaseRecord ==
    [program_name |-> <<"B", "i", "o">>,
     university |-> <<"M", "I", "T">>,
     comments |-> <<>>,
     date_added |-> <<"1", "2", " ", "J", "a", "n">>,
     url |-> <<>>,
     applicant_status |-> <<"A", "c", "c", "e", "p", "t", "e", "d">>,
     acceptance_date |-> <<"1", " ", "J", "u", "n">>,
     rejection_date |-> <<>>,
     semester_year |-> <<"F", "a", "l", "l", " ", "2", "0", "2", "5">>,
     international_american |-> <<"I", "n", "t", "e", "r", "n", "a", "t", "i", "o", "n", "a", "l">>,
     gre_score |-> <<"V", ":", "1", "6", "5", ",", " ", "Q", ":", "1", "6", "0">>,
     gre_verbal |-> <<"1", "6", "5">>,
     degree_type |-> <<"M", "a", "s", "t", "e", "r", "s">>,
     gpa |-> <<"3", ".", "8">>,
     gre_aw |-> <<>>]

\* the values each raw field ranges over
FieldInputs ==
    [program_name |-> TextInputs,
     university |-> TextInputs,
     comments |-> TextInputs,
     date_added |-> DateInputs,
     url |-> {<<>>, PyNone},
     applicant_status |-> StatusInputs,
     acceptance_date |-> DateInputs,
     rejection_date |-> DateInputs,
     semester_year |-> SemesterYearInputs,
     international_american |-> InternationalInputs,
     gre_score |-> GreScoreInputs,
     gre_verbal |-> GreInputs,
     degree_type |-> DegreeInputs,
     gpa |-> GpaInputs,
     gre_aw |-> GreAwInputs]

RawKeys == DOMAIN BaseRecord

\* the base record with one field changed, the base record with one key
\* missing, and an entry that is no dict
RawRecords ==
    UNION {{[BaseRecord EXCEPT ![k] = v] : v \in FieldInputs[k]} : k \in RawKeys}
    \cup {[k \in RawKeys \ {m} |-> BaseRecord[k]] : m \in RawKeys}
    \cup {NonDict}

\* the records that lists of several records are made of: an admitted one, one
\* without university, one whose university cleans to a blank, one whose gpa
\* is a number, one with a slash date
CoreRecords ==
    {BaseRecord,
     [BaseRecord EXCEPT !.university = <<>>],
     [BaseRecord EXCEPT !.university = <<"@", " ", "@">>],
     [BaseRecord EXCEPT !.gpa = PyFloat],
     [BaseRecord EXCEPT !.date_added = <<"1", "/", "1", "5", "/", "2", "0", "2", "4">>]}

\* lists of several records, as a caller passes on any call
CoreLists == SeqsUpTo(CoreRecords, MaxRecords)

\* a record with a semester and no year followed by one with a year and no semester
SemesterYearList ==
    <<[BaseRecord EXCEPT !.semester_year = <<"S", "p", "r", "i", "n", "g">>],
      [BaseRecord EXCEPT !.semester_year = <<"2", "0", "2", "4">>]>>

\* the lists a first call is given: every single record as well
RawLists == {<<r>> : r \in RawRecords} \cup CoreLists \cup {SemesterYearList}

-----------------------------------------------------------------------------
(* clean.py: GradCafeDataCleaner.clean_data, one action per loop iteration *)

\* __init__
CleanerInit ==
    /\ raw_data = <<>>
    /\ cleaned_data = <<>>
    /\ cleaning_stats = [total_entries |-> 0, cleaned_entries |-> 0, removed_entries |-> 0]
    /\ clean_pc = "idle"
    /\ clean_i = 1
    /\ clean_calls = 0
    /\ fed_back = FALSE

\* the counters of cleaning_stats when a call begins: only total_entries is set
StatsAtCallStart(stats, n) == [stats EXCEPT !.total_entries = n]

\* a clean_data that goes on appending to the list of the call before
CleanBegin_mutant(raw, fb) ==
    /\ clean_pc = "idle"
    /\ clean_calls < MaxCleanCalls
    /\ raw_data' = raw
    /\ cleaning_stats' = StatsAtCallStart(cleaning_stats, Len(raw))
    /\ cleaned_data' = cleaned_data
    /\ clean_i' = 1
    /\ clean_pc' = "loop"
    /\ fed_back' = fb
    /\ UNCHANGED clean_calls

\* clean_data, up to the loop
CleanBegin(raw, fb) ==
    /\ clean_pc = "idle"
    /\ clean_calls < MaxCleanCalls
    /\ raw_data' = raw
    /\ cleaning_stats' = StatsAtCallStart(cleaning_stats, Len(raw))
    /\ cleaned_data' = <<>>
    /\ clean_i' = 1
    /\ clean_pc' = "loop"
    /\ fed_back' = fb
    /\ UNCHANGED clean_calls

\* a caller passes a raw list
CleanDataCall ==
    /\ pipe_pc = "off"
    /\ \E raw \in (IF clean_calls = 0 THEN RawLists ELSE CoreLists) : CleanBegin(raw, FALSE)
    /\ UNCHANGED <<pipeVars, scraperVars, pageVars, parserVars, orderVars>>

\* a caller passes the output of the previous call as raw input
CleanDataAgain ==
    /\ pipe_pc = "off"
    /\ clean_calls > 0
    /\ CleanBegin(cleaned_data, TRUE)
    /\ UNCHANGED <<pipeVars, scraperVars, pageVars, parserVars, orderVars>>

\* a clean_entry that cleans the dict it is given in place
EntryAfterCleaning_inplace(entry) == IF CleanEntry(entry) # NoEntry THEN CleanEntry(entry) ELSE entry
\* the entry clean_entry was given, once it returned: it builds cleaned_entry
\* as a new dict and only reads entry (entry.get)
EntryAfterCleaning(entry) == entry

\* one iteration of "for i, entry in enumerate(raw_data)"
CleanStep ==
    /\ clean_pc = "loop"
    /\ clean_i <= Len(raw_data)
    /\ LET cleaned_entry == CleanEntry(raw_data[clean_i])
       IN IF cleaned_entry # NoEntry
          THEN /\ cleaned_data' = Append(cleaned_data, cleaned_entry)
               /\ cleaning_stats' =
                      [cleaning_stats EXCEPT !.cleaned_entries = @ + 1]
          ELSE /\ cleaned_data' = cleaned_data
               /\ cleaning_stats' =
                      [cleaning_stats EXCEPT !.removed_entries = @ + 1]
    /\ clean_i' = clean_i + 1
    /\ raw_data' = [raw_data EXCEPT ![clean_i] = EntryAfterCleaning(@)]
    /\ UNCHANGED <<clean_pc, clean_calls, fed_back>>
    /\ UNCHANGED <<pipeVars, scraperVars, pageVars, parserVars, orderVars>>

\* the loop is over: return self.cleaned_data
CleanReturn ==
    /\ clean_pc = "loop"
    /\ clean_i > Len(raw_data)
    /\ clean_pc' = "idle"
    /\ clean_calls' = clean_calls + 1
    /\ UNCHANGED <<raw_data, cleaned_data, cleaning_stats, clean_i, fed_back>>
    /\ UNCHANGED <<pipeVars, scraperVars, pageVars, parserVars, orderVars>>

CleanerNext == CleanDataCall \/ CleanDataAgain \/ CleanStep \/ CleanReturn

\* a file that does not exist, and a file holding the JSON value data
NoFile == [exists |-> FALSE, data |-> <<>>]
FileOf(data) == [exists |-> TRUE, data |-> data]

\* no pipeline is running: the cleaner is driven directly
PipelineOff ==
    /\ pipe_pc = "off"
    /\ phase_log = <<>>
    /\ scraped_data = <<>>
    /\ raw_file = NoFile
    /\ clean_file = NoFile
    /\ report_file = NoFile
    /\ scrape_ok = "none"
    /\ clean_ok = "none"
    /\ report_ok = "none"
    /\ result = "none"

\* GradCafeScraper.__init__; scrape_data has not been called
ScraperInit ==
    /\ scr_pc = "idle"
    /\ max_entries = 0
    /\ page_num = 1
    /\ total_entries = 0
    /\ scraped_len = 0
    /\ returned_len = 0
    /\ robots_ok = TRUE
    /\ req_count = 0
    /\ req_last = 0
    /\ last_yield = 0
    /\ scrape_calls = 0

\* no page is being scanned
PageIdle ==
    /\ page_pc = "idle"
    /\ fetch = "none"
    /\ rows = <<>>
    /\ row_i = 0
    /\ page_data = <<>>
    /\ extract_calls = <<>>

-----------------------------------------------------------------------------
(* module_4: pizza.py and order.py *)

\* Pizza.CRUST_PRICES, SAUCE_PRICES, CHEESE_PRICES, TOPPING_PRICES
CRUST_PRICES == [thin |-> 5, thick |-> 3, gluten_free |-> 7]
SAUCE_PRICES == [marinara |-> 2, pesto |-> 3, liv_sauce |-> 5]
CHEESE_PRICES == [mozzarella |-> 1]
TOPPING_PRICES == [pepperoni |-> 2, mushrooms |-> 3, pineapple |-> 1]

\* the sum of the prices of a list of names
RECURSIVE SumPrices(_, _, _)
SumPrices(prices, names, n) ==
    IF n = 0 THEN 0 ELSE SumPrices(prices, names, n - 1) + prices[names[n]]

\* Pizza.cost(): crust, every sauce, cheese, every topping
Pizza_cost(self) ==
    CRUST_PRICES[self.crust]
    + SumPrices(SAUCE_PRICES, self.sauce, Len(self.sauce))
    + CHEESE_PRICES[self.cheese]
    + SumPrices(TOPPING_PRICES, self.toppings, Len(self.toppings))

\* the exception of input_pizza
TypeError == <<"TypeError">>

\* Order(): no pizzas, unpaid
NewOrder == [pizzas |-> <<>>, paid |-> FALSE]

\* an input_pizza that appends whatever it is given
Order_input_pizza_mutant(self, pizza) ==
    [self |-> [self EXCEPT !.pizzas = Append(@, pizza)], res |-> PyNone]
\* Order.input_pizza(pizza): the order after the call and what the call gave
Order_input_pizza(self, pizza) ==
    IF pizza.type # "Pizza"
    THEN [self |-> self, res |-> TypeError]
    ELSE [self |-> [self EXCEPT !.pizzas = Append(@, pizza)], res |-> PyNone]

\* a payment that takes the pizzas off the order
Order_order_paid_mutant(self) == [pizzas |-> <<>>, paid |-> TRUE]
\* Order.order_paid()
Order_order_paid(self) == [self EXCEPT !.paid = TRUE]

\* the sum of the costs of the first n pizzas
RECURSIVE SumCosts(_, _)
SumCosts(pizzas, n) ==
    IF n = 0 THEN 0 ELSE SumCosts(pizzas, n - 1) + Pizza_cost(pizzas[n])

\* a cost that counts every pizza at the price of the first one
Order_cost_mutant(self) ==
    IF self.pizzas = <<>> THEN 0 ELSE Len(self.pizzas) * Pizza_cost(self.pizzas[1])
\* Order.cost()
Order_cost(self) == SumCosts(self.pizzas, Len(self.pizzas))

\* no order has been made
OrderIdle ==
    /\ order = NewOrder
    /\ order_call = "none"
    /\ order_arg = PyNone
    /\ order_res = PyNone

\* no method has been called on its own
ParserIdle ==
    /\ parser = "none"
    /\ parser_arg = <<>>
    /\ parser_res = <<>>

CleanInit == CleanerInit /\ PipelineOff /\ ScraperInit /\ PageIdle /\ ParserIdle /\ OrderIdle

SpecClean == CleanInit /\ [][CleanerNext]_vars

-----------------------------------------------------------------------------
(* clean.py: the field parsers called on their own *)

MaxParserLen == 3

\* the texts the numeric parsers are given: every short text over a few
\* digits, the dot, a blank and a character _clean_text deletes, and longer ones
GpaTexts ==
    SeqsUpTo({"3", "8", ".", "@", " "}, MaxParserLen)
    \cup {<<"3", ".", "7", "5">>, <<"8", ".", "0">>, <<"1", "1">>, <<"4", ".", "0">>, <<"1", "0", ".", "0">>, <<"1", "@", "0">>, <<"G", "P", "A", " ", "3", ".", "9", "/", "4", ".", "0">>, <<"<", "b", ">", "3", "<", "/", "b", ">", ".", "5">>}
GreTexts ==
    SeqsUpTo({"1", "6", "5", "@"}, MaxParserLen)
    \cup {<<"7", "8", "0">>, <<"9", "9", "9">>, <<"0", "1", "6", "5">>, <<"1", "2", "9">>, <<"1", "7", "1">>, <<"1", "9", "9">>, <<"8", "0", "1">>, <<"1", "6", "5", ".", "5">>,
          <<"9", "9", " ", "1", "6", "5">>, <<"1", "@", "6", "5">>, <<"1", "6", "@", "5">>, <<"V", ":", " ", "1", "7", "0">>}
AwTexts ==
    SeqsUpTo({"4", "6", ".", "@"}, MaxParserLen)
    \cup {<<"4", ".", "5">>, <<"6", ".", "0">>, <<"7">>, <<"0">>, <<"A", "W", " ", "3", ".", "5">>, <<"5", "@", "0">>}
StatusTexts ==
    SeqsUpTo({"d", "e", "n", "D", " "}, MaxParserLen)
    \cup {<<"a", "c", "c", "e", "p", "t", "e", "d">>, <<"A", "d", "m", "i", "t", "t", "e", "d">>, <<"R", "E", "J", "E", "C", "T", "E", "D">>, <<"d", "e", "n", "i", "e", "d">>, <<"w", "a", "i", "t", " ", "l", "i", "s", "t", "e", "d">>, <<"W", "a", "i", "t", "l", "i", "s", "t">>,
          <<"I", "n", "t", "e", "r", "v", "i", "e", "w">>, <<"s", "t", "u", "d", "e", "n", "t">>, <<"l", "i", "s", "t", "e", "n">>, <<"a", "c", "c", "e", "p", "t", " ", "o", "r", " ", "r", "e", "j", "e", "c", "t">>, <<"r", "e", "j", "e", "c", "t", "e", "d", " ", "a", "f", "t", "e", "r", " ", "i", "n", "t", "e", "r", "v", "i", "e", "w">>,
          <<"i", "n", "t", "e", "r", "v", "i", "e", "w", ",", " ", "t", "h", "e", "n", " ", "w", "a", "i", "t", "l", "i", "s", "t">>, <<" ", "p", "e", "n", "d", "i", "n", "g", " ">>, <<"s", "t", "i", "l", "l", " ", "P", "E", "N", "D", "I", "N", "G">>}

\* every text a parser is called with
\* the texts _clean_text is given: every short text over a letter, a blank,
\* a character it deletes and the two brackets of a tag, and longer ones
PlainTexts ==
    SeqsUpTo({"a", " ", "@", "<", ">"}, MaxParserLen)
    \cup {<<"a", " ", "@", " ", "b">>, <<"<", "b", ">", "a", "<", "/", "b", ">">>, <<"a", " ", " ", "b">>, <<" ", "a", " ", "b", " ">>, <<"a", "\t", "@", "\n", "b">>,
          <<"<", "<", "b", ">", ">">>, <<"a", " ", "<", "b", "r", ">", " ", "b">>, <<"C", "o", "m", "p", "u", "t", "e", "r", " ", "S", "c", "i", "e", "n", "c", "e", " ", "(", "P", "h", "D", ")">>}

\* the texts _clean_date is given: each of the four formats, texts holding
\* two of them, texts close to a format, and texts _clean_text changes
DateTexts ==
    {<<"1", "5", " ", "J", "a", "n", " ", "2", "0", "2", "4">>, <<"J", "a", "n", " ", "1", "5", ",", " ", "2", "0", "2", "4">>, <<"J", "a", "n", " ", "1", "5", " ", "2", "0", "2", "4">>, <<"1", "/", "1", "5", "/", "2", "0", "2", "4">>, <<"2", "0", "2", "4", "-", "0", "1", "-", "1", "5">>,
     <<"2", "0", "2", "4", "-", "1", "-", "5">>, <<"5", " ", " ", "F", "e", "b", " ", " ", " ", "2", "0", "2", "3">>, <<"1", "/", "1", "5", "/", "2", "0", "2", "4", " ", "1", "5", " ", "J", "a", "n", " ", "2", "0", "2", "4">>, <<"2", "0", "2", "4", "-", "0", "1", "-", "1", "5", " ", "J", "a", "n", " ", "1", "5", ",", " ", "2", "0", "2", "4">>,
     <<"2", "0", "2", "4", "-", "0", "1", "-", "1", "5", " ", "1", "/", "1", "5", "/", "2", "0", "2", "4">>, <<"J", "a", "n", " ", "1", "5", ",", " ", "2", "0", "2", "4", " ", "3", " ", "M", "a", "r", " ", "2", "0", "2", "1">>, <<"1", "/", "5", "/", "2", "0", "2", "4", " ", "2", "0", "2", "3", "-", "1", "2", "-", "3", "1">>,
     <<"o", "n", " ", "1", "5", " ", "J", "a", "n", " ", "2", "0", "2", "4", " ", "a", "t", " ", "n", "o", "o", "n">>, <<"1", "2", "3", " ", "J", "a", "n", " ", "2", "0", "2", "4">>, <<"1", "5", " ", "J", "a", "n", "u", "a", "r", "y", " ", "2", "0", "2", "4">>, <<"1", "2", " ", "J", "a", "n">>,
     <<"1", "/", "1", "5", "/", "2", "4">>, <<"2", "0", "2", "4", "/", "0", "1", "/", "1", "5">>, <<"1", "5", "-", "0", "1", "-", "2", "0", "2", "4">>, <<"1", "@", "5", " ", "J", "a", "n", " ", "2", "0", "2", "4">>, <<"<", "b", ">", "3", "<", "/", "b", ">", " ", "M", "a", "r", " ", "2", "0", "2", "1">>,
     <<"y", "e", "s", "t", "e", "r", "d", "a", "y">>, <<" ", " ">>, <<"1", "2", "/", "3", "1", "/", "2", "0", "2", "3">>, <<"D", "e", "c", " ", " ", "3", ",", "2", "0", "2", "4">>, <<"3", " ", "M", "a", "r", " ", "2", "0", "2", "1", " ", "4", " ", "A", "p", "r", " ", "2", "0", "2", "2">>}

ParserTexts ==
    GpaTexts \cup GreTexts \cup AwTexts \cup StatusTexts \cup PlainTexts \cup DateTexts

\* cleaner._clean_gpa(text)
CallCleanGpa ==
    /\ parser = "none"
    /\ parser' = "_clean_gpa"
    /\ parser_res' = CleanGpa(parser_arg)
    /\ UNCHANGED parser_arg
    /\ UNCHANGED <<cleanerVars, pipeVars, scraperVars, pageVars, orderVars>>

\* cleaner._clean_gre_score(text)
CallCleanGreScore ==
    /\ parser = "none"
    /\ parser' = "_clean_gre_score"
    /\ parser_res' = CleanGreScore(parser_arg)
    /\ UNCHANGED parser_arg
    /\ UNCHANGED <<cleanerVars, pipeVars, scraperVars, pageVars, orderVars>>

\* cleaner._clean_gre_aw(text)
CallCleanGreAw ==
    /\ parser = "none"
    /\ parser' = "_clean_gre_aw"
    /\ parser_res' = CleanGreAw(parser_arg)
    /\ UNCHANGED parser_arg
    /\ UNCHANGED <<cleanerVars, pipeVars, scraperVars, pageVars, orderVars>>

\* cleaner._standardize_decision_status(text)
CallStandardizeDecisionStatus ==
    /\ parser = "none"
    /\ parser' = "_standardize_decision_status"
    /\ parser_res' = StandardizeDecisionStatus(parser_arg)
    /\ UNCHANGED parser_arg
    /\ UNCHANGED <<cleanerVars, pipeVars, scraperVars, pageVars, orderVars>>

\* cleaner._clean_text(text)
CallCleanText ==
    /\ parser = "none"
    /\ parser' = "_clean_text"
    /\ parser_res' = CleanText(parser_arg)
    /\ UNCHANGED parser_arg
    /\ UNCHANGED <<cleanerVars, pipeVars, scraperVars, pageVars, orderVars>>

\* cleaner._clean_date(text)
CallCleanDate ==
    /\ parser = "none"
    /\ parser' = "_clean_date"
    /\ parser_res' = CleanDate(parser_arg)
    /\ UNCHANGED parser_arg
    /\ UNCHANGED <<cleanerVars, pipeVars, scraperVars, pageVars, orderVars>>

ParserNext ==
    \/ CallCleanGpa
    \/ CallCleanGreScore
    \/ CallCleanGreAw
    \/ CallStandardizeDecisionStatus
    \/ CallCleanText
    \/ CallCleanDate

\* a fresh cleaner and the text one of its parsers is about to be given
ParserInit ==
    /\ parser = "none"
    /\ parser_arg \in ParserTexts
    /\ parser_res = <<>>
    /\ CleanerInit /\ PipelineOff /\ ScraperInit /\ PageIdle /\ OrderIdle

SpecParsers == ParserInit /\ [][ParserNext]_vars

-----------------------------------------------------------------------------
(* module_4: the methods of one Order called in any sequence *)

MaxPizzas == 3

\* a Pizza the constructor accepts
PizzaObject(crust, sauce, cheese, toppings) ==
    [type |-> "Pizza", crust |-> crust, sauce |-> sauce, cheese |-> cheese,
     toppings |-> toppings]

\* the pizzas that are ordered: one of each crust, one with several sauces
\* and toppings, one with a sauce and a topping twice
Pizzas ==
    {PizzaObject("thin", <<"marinara">>, "mozzarella", <<"pineapple">>),
     PizzaObject("thick", <<"pesto">>, "mozzarella", <<"mushrooms">>),
     PizzaObject("gluten_free", <<"liv_sauce">>, "mozzarella", <<"pepperoni">>),
     PizzaObject("thin", <<"marinara", "pesto">>, "mozzarella",
                 <<"pepperoni", "mushrooms", "pineapple">>),
     PizzaObject("thick", <<"marinara", "marinara">>, "mozzarella",
                 <<"pineapple", "pineapple">>)}

\* values that are not Pizza objects: a string, None, a number, and a dict
\* with the attributes of a pizza
NonPizzas ==
    {[type |-> "str", crust |-> "thin", sauce |-> <<>>, cheese |-> "", toppings |-> <<>>],
     [type |-> "NoneType", crust |-> "", sauce |-> <<>>, cheese |-> "", toppings |-> <<>>],
     [type |-> "int", crust |-> "", sauce |-> <<>>, cheese |-> "", toppings |-> <<>>],
     [type |-> "dict", crust |-> "thin", sauce |-> <<"marinara">>, cheese |-> "mozzarella",
      toppings |-> <<"pineapple">>]}

\* order.input_pizza(x)
CallInputPizza ==
    /\ Len(order.pizzas) < MaxPizzas
    /\ \E x \in Pizzas \cup NonPizzas :
           /\ order_arg' = x
           /\ order' = Order_input_pizza(order, x).self
           /\ order_res' = Order_input_pizza(order, x).res
    /\ order_call' = "input_pizza"
    /\ UNCHANGED <<cleanerVars, pipeVars, scraperVars, pageVars, parserVars>>

\* order.order_paid()
CallOrderPaid ==
    /\ order' = Order_order_paid(order)
    /\ order_call' = "order_paid"
    /\ order_arg' = PyNone
    /\ order_res' = PyNone
    /\ UNCHANGED <<cleanerVars, pipeVars, scraperVars, pageVars, parserVars>>

\* order.cost()
CallOrderCost ==
    /\ order_call' = "cost"
    /\ order_arg' = PyNone
    /\ order_res' = Order_cost(order)
    /\ UNCHANGED order
    /\ UNCHANGED <<cleanerVars, pipeVars, scraperVars, pageVars, parserVars>>

OrderNext == CallInputPizza \/ CallOrderPaid \/ CallOrderCost

OrderInit == OrderIdle /\ CleanerInit /\ PipelineOff /\ ScraperInit /\ PageIdle /\ ParserIdle

SpecOrder == OrderInit /\ [][OrderNext]_vars

-----------------------------------------------------------------------------
(* main.py: generate_summary_report *)

TopCount == 10

\* entry.get(key, 'Unknown')
GetOrUnknown(entry, key) == IF key \in DOMAIN entry THEN entry[key] ELSE Label.Unknown

\* counts[v] = counts.get(v, 0) + 1 on a dict kept as <<key, count>> pairs in
\* insertion order
Bump(counts, v) ==
    IF \E i \in 1..Len(counts) : counts[i][1] = v
    THEN [i \in 1..Len(counts) |->
             IF counts[i][1] = v THEN <<v, counts[i][2] + 1>> ELSE counts[i]]
    ELSE Append(counts, <<v, 1>>)

RECURSIVE CountBy(_, _, _)
\* the dict of counts of data[1..n] by the value of key
CountBy(data, key, n) ==
    IF n = 0 THEN <<>>
    ELSE Bump(CountBy(data, key, n - 1), GetOrUnknown(data[n], key))

\* an insertion in front of the items of equal count (a sort that is not stable)
InsertByCount_mutant(sorted, item) ==
    SubSeq(sorted, 1, Cardinality({i \in 1..Len(sorted) : sorted[i][2] > item[2]}))
    \o <<item>>
    \o SubSeq(sorted, Cardinality({i \in 1..Len(sorted) : sorted[i][2] > item[2]}) + 1,
              Len(sorted))
\* insertion of item into a list sorted by count, largest first, behind the
\* items it does not exceed (sorted(..., reverse=True) is stable)
InsertByCount(sorted, item) ==
    SubSeq(sorted, 1, Cardinality({i \in 1..Len(sorted) : sorted[i][2] >= item[2]}))
    \o <<item>>
    \o SubSeq(sorted, Cardinality({i \in 1..Len(sorted) : sorted[i][2] >= item[2]}) + 1,
              Len(sorted))

RECURSIVE SortedByCount(_, _)
\* sorted(counts.items(), key=lambda x: x[1], reverse=True) of counts[1..n]
SortedByCount(counts, n) ==
    IF n = 0 THEN <<>> ELSE InsertByCount(SortedByCount(counts, n - 1), counts[n])

\* [:10]
FirstN(list, n) == SubSeq(list, 1, Min(n, Len(list)))

\* sum(1 for entry in data if entry.get(key))
CountWith(data, key) ==
    Cardinality({i \in 1..Len(data) : Truthy(Get(data[i], key))})

\* the report object (generation_date, a timestamp, is left out)
SummaryReport(data) ==
    [total_entries |-> Len(data),
     status_distribution |-> CountBy(data, "applicant_status", Len(data)),
     degree_type_distribution |-> CountBy(data, "degree_type", Len(data)),
     top_10_universities |->
         FirstN(SortedByCount(CountBy(data, "university", Len(data)),
                              Len(CountBy(data, "university", Len(data)))), TopCount),
     data_quality |->
         [entries_with_gpa |-> CountWith(data, "gpa"),
          entries_with_gre |-> CountWith(data, "gre_verbal"),
          entries_with_comments |-> CountWith(data, "comments")]]

-----------------------------------------------------------------------------
(* main.py: GradCafeApplication.run_full_pipeline *)

\* what the extractor can return: a dict with the 15 keys and string values
ExtractorShaped(r) == IsDict(r) /\ DOMAIN r = RawKeys /\ \A k \in RawKeys : IsStr(r[k])
\* what the pages of one scrape run can hold
WebLists == {l \in RawLists : \A i \in 1..Len(l) : ExtractorShaped(l[i])}

\* files left behind by an earlier run
StaleRawFiles == {NoFile, FileOf(<<>>), FileOf(<<[BaseRecord EXCEPT !.university = <<"U">>]>>)}
StaleCleanFiles == {NoFile, FileOf(<<CleanedFields([BaseRecord EXCEPT !.university = <<"U">>])>>)}

\* __init__ of the application, and the files found on disk
PipelineInit ==
    /\ CleanerInit
    /\ ScraperInit
    /\ PageIdle
    /\ ParserIdle
    /\ OrderIdle
    /\ pipe_pc = "scrape"
    /\ phase_log = <<>>
    /\ scraped_data = <<>>
    /\ raw_file \in StaleRawFiles
    /\ clean_file \in StaleCleanFiles
    /\ report_file = NoFile
    /\ scrape_ok = "none"
    /\ clean_ok = "none"
    /\ report_ok = "none"
    /\ result = "none"

\* "if not self.<phase>(): return False" without the return
AfterPhase_mutant(ok, next) == next

\* run_full_pipeline: where control goes after a phase returned ok
AfterPhase(ok, next) == IF ok THEN next ELSE "done"

\* open(filename, 'w') and json.dump: the file holds data when the write
\* succeeds and is left as it was when it raises
Written(file, data, io_ok) == IF io_ok THEN FileOf(data) ELSE file

\* Step 1: scrape_data().  The scraper returns its scraped_data extended by
\* the records of the pages, web; save_raw_data swallows a failing write.
AppScrapeData ==
    /\ pipe_pc = "scrape"
    /\ phase_log' = Append(phase_log, "SCRAPING")
    /\ \E web \in WebLists, io_ok \in BOOLEAN :
           /\ scraped_data' = scraped_data \o web
           /\ IF scraped_data' = <<>>
              THEN /\ scrape_ok' = "fail"
                   /\ raw_file' = raw_file
              ELSE /\ scrape_ok' = "ok"
                   /\ raw_file' = Written(raw_file, scraped_data', io_ok)
    /\ pipe_pc' = AfterPhase(scrape_ok' = "ok", "clean")
    /\ result' = IF pipe_pc' = "done" THEN "False" ELSE result
    /\ UNCHANGED <<clean_file, report_file, clean_ok, report_ok>>
    /\ UNCHANGED <<cleanerVars, scraperVars, pageVars, parserVars, orderVars>>

\* an existence test that always succeeds
RawFileFound_mutant(file) == TRUE
\* os.path.exists('raw_applicant_data.json')
RawFileFound(file) == file.exists

\* Step 2: clean_data() when the raw file is missing
AppCleanNoRawFile ==
    /\ pipe_pc = "clean"
    /\ ~RawFileFound(raw_file)
    /\ phase_log' = Append(phase_log, "CLEANING")
    /\ clean_ok' = "fail"
    /\ pipe_pc' = AfterPhase(FALSE, "report")
    /\ result' = IF pipe_pc' = "done" THEN "False" ELSE result
    /\ UNCHANGED <<scraped_data, raw_file, clean_file, report_file, scrape_ok, report_ok>>
    /\ UNCHANGED <<cleanerVars, scraperVars, pageVars, parserVars, orderVars>>

\* Step 2: clean_data() loads the raw file and calls the cleaner
AppCleanBegin ==
    /\ pipe_pc = "clean"
    /\ RawFileFound(raw_file)
    /\ phase_log' = Append(phase_log, "CLEANING")
    /\ CleanBegin(raw_file.data, FALSE)
    /\ pipe_pc' = "cleaning"
    /\ UNCHANGED <<scraped_data, raw_file, clean_file, report_file, scrape_ok, clean_ok,
                   report_ok, result>>
    /\ UNCHANGED <<scraperVars, pageVars, parserVars, orderVars>>

\* a clean phase that saves and reports success whatever the cleaner returned
AppCleanEnd_mutant ==
    /\ pipe_pc = "cleaning"
    /\ clean_pc = "idle"
    /\ \E io_ok \in BOOLEAN :
           /\ clean_ok' = "ok"
           /\ clean_file' = Written(clean_file, cleaned_data, io_ok)
    /\ pipe_pc' = AfterPhase(clean_ok' = "ok", "report")
    /\ result' = IF pipe_pc' = "done" THEN "False" ELSE result
    /\ UNCHANGED <<phase_log, scraped_data, raw_file, report_file, scrape_ok, report_ok>>
    /\ UNCHANGED <<cleanerVars, scraperVars, pageVars, parserVars, orderVars>>

\* Step 2, after the cleaner returned: save_cleaned_data swallows a failing write
AppCleanEnd ==
    /\ pipe_pc = "cleaning"
    /\ clean_pc = "idle"
    /\ \E io_ok \in BOOLEAN :
           IF cleaned_data = <<>>
           THEN /\ clean_ok' = "fail"
                /\ clean_file' = clean_file
           ELSE /\ clean_ok' = "ok"
                /\ clean_file' = Written(clean_file, cleaned_data, io_ok)
    /\ pipe_pc' = AfterPhase(clean_ok' = "ok", "report")
    /\ result' = IF pipe_pc' = "done" THEN "False" ELSE result
    /\ UNCHANGED <<phase_log, scraped_data, raw_file, report_file, scrape_ok, report_ok>>
    /\ UNCHANGED <<cleanerVars, scraperVars, pageVars, parserVars, orderVars>>

\* Step 3: generate_summary_report(), whose outcome run_full_pipeline does not
\* look at, and "return True"
AppReport ==
    /\ pipe_pc = "report"
    /\ phase_log' = Append(phase_log, "REPORTING")
    /\ \E io_ok \in BOOLEAN :
           IF ~clean_file.exists \/ clean_file.data = <<>>
           THEN /\ report_ok' = "fail"          \* "No data available"
                /\ report_file' = report_file
           ELSE /\ report_ok' = IF io_ok THEN "ok" ELSE "fail"
                /\ report_file' = Written(report_file, SummaryReport(clean_file.data), io_ok)
    /\ pipe_pc' = "done"
    /\ result' = "True"
    /\ UNCHANGED <<scraped_data, raw_file, clean_file, scrape_ok, clean_ok>>
    /\ UNCHANGED <<cleanerVars, scraperVars, pageVars, parserVars, orderVars>>

PipelineNext ==
    \/ AppScrapeData
    \/ AppCleanNoRawFile
    \/ AppCleanBegin
    \/ CleanStep
    \/ CleanReturn
    \/ AppCleanEnd
    \/ AppReport

SpecPipeline == PipelineInit /\ [][PipelineNext]_vars

-----------------------------------------------------------------------------
(* main.py: generate_summary_report run on its own ("report" command) *)

MaxExtraRecords == 2

\* twelve university names, two more than the report keeps
UniversityNames ==
    <<<<"a">>, <<"b">>, <<"c">>, <<"d">>, <<"e">>, <<"f">>,
      <<"g">>, <<"h">>, <<"i">>, <<"j">>, <<"k">>, <<"l">>>>

\* a record of applicant_data.json of university u
ReportRecord(u) == [CleanedFields(BaseRecord) EXCEPT !.university = u]

\* one record for each of the first n names, in their order and in reverse
NamesUp(n) == [i \in 1..n |-> ReportRecord(UniversityNames[i])]
NamesDown(n) == [i \in 1..n |-> ReportRecord(UniversityNames[n + 1 - i])]

\* further records of a few of the universities
ExtraRecords ==
    SeqsUpTo({ReportRecord(UniversityNames[i]) : i \in {1, 2, 11, 12}}, MaxExtraRecords)

\* the cleaned files a report is made from: one record of each of 2, 10, 11
\* or 12 universities, with extra records before or after them
ReportData ==
    UNION {{base \o extra, extra \o base} :
              base \in UNION {{NamesUp(n), NamesDown(n)} : n \in {2, 10, 11, 12}},
              extra \in ExtraRecords}

\* the application was started with the report command: applicant_data.json
\* is what an earlier clean phase wrote
ReportInit ==
    /\ CleanerInit
    /\ ScraperInit
    /\ PageIdle
    /\ ParserIdle
    /\ OrderIdle
    /\ pipe_pc = "off"
    /\ phase_log = <<>>
    /\ scraped_data = <<>>
    /\ raw_file = NoFile
    /\ clean_file \in {NoFile} \cup {FileOf(d) : d \in ReportData}
    /\ report_file = NoFile
    /\ scrape_ok = "none"
    /\ clean_ok = "none"
    /\ report_ok = "none"
    /\ result = "none"

\* generate_summary_report() when applicant_data.json cannot be loaded
ReportNoData ==
    /\ pipe_pc = "off"
    /\ report_ok = "none"
    /\ ~clean_file.exists \/ clean_file.data = <<>>
    /\ report_ok' = "fail"
    /\ UNCHANGED <<pipe_pc, phase_log, scraped_data, raw_file, clean_file, report_file,
                   scrape_ok, clean_ok, result>>
    /\ UNCHANGED <<cleanerVars, scraperVars, pageVars, parserVars, orderVars>>

\* generate_summary_report(): the report is built and written
GenerateSummaryReport ==
    /\ pipe_pc = "off"
    /\ report_ok = "none"
    /\ clean_file.exists
    /\ clean_file.data # <<>>
    /\ \E io_ok \in BOOLEAN :
           /\ report_ok' = IF io_ok THEN "ok" ELSE "fail"
           /\ report_file' = Written(report_file, SummaryReport(clean_file.data), io_ok)
    /\ UNCHANGED <<pipe_pc, phase_log, scraped_data, raw_file, clean_file,
                   scrape_ok, clean_ok, result>>
    /\ UNCHANGED <<cleanerVars, scraperVars, pageVars, parserVars, orderVars>>

ReportNext == ReportNoData \/ GenerateSummaryReport

SpecReport == ReportInit /\ [][ReportNext]_vars

-----------------------------------------------------------------------------
(* scrape.py: GradCafeScraper.scrape_data, one action per loop iteration *)

PageLimit == 1000
DefaultMaxEntries == 10000

\* the targets a caller asks for: small ones, and the default
MaxEntriesChoices == 0..MaxSmallTarget \cup {DefaultMaxEntries}

\* the scrape_data calls made on one scraper
MaxScrapeCalls == 2

\* "if not page_data" that never breaks
PageEmpty_mutant(n) == FALSE
\* if not page_data
PageEmpty(n) == n = 0

\* if total_entries >= max_entries
TargetReached(total, max) == total >= max

\* "if page_num > 1000" that lets page 1001 through
PageLimitReached_mutant(page) == page > PageLimit + 1
\* if page_num > 1000
PageLimitReached(page) == page > PageLimit

\* scrape_data up to the loop: the robots.txt check, page_num = 1, total_entries = 0
ScrapeCall ==
    /\ scr_pc = "idle"
    /\ \E max \in MaxEntriesChoices, allowed \in BOOLEAN :
           /\ max_entries' = max
           /\ robots_ok' = allowed
           /\ scr_pc' = IF allowed THEN "loop" ELSE "done"
    /\ page_num' = 1
    /\ total_entries' = 0
    /\ req_count' = 0
    /\ req_last' = 0
    /\ last_yield' = 0
    /\ returned_len' = 0                     \* "return []" when robots.txt forbids
    /\ scrape_calls' = scrape_calls + 1
    /\ UNCHANGED scraped_len
    /\ UNCHANGED <<cleanerVars, pipeVars, pageVars, parserVars, orderVars>>

\* a further scrape_data call on the same scraper, made after a call with a
\* small target returned: page_num = 1 and total_entries = 0 again, and
\* self.scraped_data, which only __init__ sets to [], as the call before left it
ScrapeCallAgain ==
    /\ scr_pc = "done"
    /\ scrape_calls < MaxScrapeCalls
    /\ max_entries <= MaxSmallTarget
    /\ \E max \in 0..MaxSmallTarget, allowed \in BOOLEAN :
           /\ max_entries' = max
           /\ robots_ok' = allowed
           /\ scr_pc' = IF allowed THEN "loop" ELSE "done"
    /\ page_num' = 1
    /\ total_entries' = 0
    /\ req_count' = 0
    /\ req_last' = 0
    /\ last_yield' = 0
    /\ returned_len' = 0
    /\ scrape_calls' = scrape_calls + 1
    /\ UNCHANGED scraped_len
    /\ UNCHANGED <<cleanerVars, pipeVars, pageVars, parserVars, orderVars>>

\* the while test fails: return self.scraped_data
ScrapeLoopExit ==
    /\ scr_pc = "loop"
    /\ ~(total_entries < max_entries)
    /\ scr_pc' = "done"
    /\ returned_len' = scraped_len
    /\ UNCHANGED <<max_entries, page_num, total_entries, scraped_len, robots_ok,
                   req_count, req_last, last_yield, scrape_calls>>
    /\ UNCHANGED <<cleanerVars, pipeVars, pageVars, parserVars, orderVars>>

\* what the request of _scrape_page comes back with: a transport error (the
\* except branch of _make_request), a status other than 200, a 200 response
\* with an empty body, with a body without a table, or with a table
FetchOutcomes == {"table", "no_table", "no_content", "bad_status", "transport_error"}

\* a _scrape_page that goes on to read rows whatever the request came back with
PageYield_mutant(f) == 0..MaxPageRecords
\* how many records _scrape_page can return: "return []" unless there is a table
PageYield(f) == IF f = "table" THEN 0..MaxPageRecords ELSE {0}

\* the body of "while total_entries < max_entries" once _scrape_page(page_num)
\* returned n records
ScrapeBody(n) ==
    /\ req_count' = req_count + 1
    /\ req_last' = page_num
    /\ last_yield' = n
    /\ IF PageEmpty(n)
       THEN /\ scr_pc' = "done"
            /\ UNCHANGED <<scraped_len, total_entries, page_num>>
       ELSE /\ scraped_len' = scraped_len + n
            /\ total_entries' = total_entries + n
            /\ IF TargetReached(total_entries', max_entries)
               THEN /\ scr_pc' = "done"
                    /\ UNCHANGED page_num
               ELSE /\ page_num' = page_num + 1
                    /\ scr_pc' = IF PageLimitReached(page_num') THEN "done" ELSE "loop"
    /\ returned_len' = IF scr_pc' = "done" THEN scraped_len' ELSE returned_len
    /\ UNCHANGED <<max_entries, robots_ok, scrape_calls>>
    /\ UNCHANGED <<cleanerVars, pipeVars, parserVars, orderVars>>

\* one iteration of "while total_entries < max_entries": _scrape_page(page_num)
\* returns n records
ScrapeIterate ==
    /\ scr_pc = "loop"
    /\ total_entries < max_entries
    /\ \E n \in 0..MaxPageRecords : ScrapeBody(n)
    /\ UNCHANGED pageVars

\* the same iteration with the request of _scrape_page(page_num) in view
ScrapeFetchIterate ==
    /\ scr_pc = "loop"
    /\ total_entries < max_entries
    /\ \E f \in FetchOutcomes :
           /\ fetch' = f
           /\ \E n \in PageYield(f) : ScrapeBody(n)
    /\ UNCHANGED <<page_pc, rows, row_i, page_data, extract_calls>>

ScraperNext == ScrapeCall \/ ScrapeLoopExit \/ ScrapeIterate

ScrapeInit == ScraperInit /\ CleanerInit /\ PipelineOff /\ PageIdle /\ ParserIdle /\ OrderIdle

SpecScrape == ScrapeInit /\ [][ScraperNext]_vars

\* the loop is not abandoned half way: the interpreter keeps executing it
SpecScrapeFair == SpecScrape /\ WF_vars(ScrapeIterate) /\ WF_vars(ScrapeLoopExit)

ScraperFetchNext == ScrapeCall \/ ScrapeLoopExit \/ ScrapeFetchIterate

\* scrape_data with the outcome of every page request in view
SpecScrapeFetch == ScrapeInit /\ [][ScraperFetchNext]_vars

ScraperAgainNext == ScrapeCall \/ ScrapeCallAgain \/ ScrapeLoopExit \/ ScrapeIterate

\* scrape_data called more than once on the same scraper
SpecScrapeAgain == ScrapeInit /\ [][ScraperAgainNext]_vars

-----------------------------------------------------------------------------
(* scrape.py: GradCafeScraper._extract_entry_data *)

\* A table row: the texts of its td cells, the href of each of its links
\* (PyNone for a link without one), and whether extracting it raises.
\* Tag.get_text(strip=True) of a cell holding one text node
GetText(cell) == Strip(cell)

NumCells(row) == Len(row.cells)

RECURSIVE CharRun(_, _, _)
\* length of the run of characters of cs in s from position i
CharRun(s, i, cs) == IF i <= Len(s) /\ s[i] \in cs THEN 1 + CharRun(s, i + 1, cs) ELSE 0

\* w occurs in s at position i
StartsAt(s, i, w) == i >= 1 /\ i + Len(w) - 1 <= Len(s) /\ SubSeq(s, i, i + Len(w) - 1) = w

DegreeKeywords ==
    <<<<"M", "a", "s", "t", "e", "r", "s">>, <<"P", "h", "D">>, <<"M", "S">>, <<"M", "A">>, <<"D", "o", "c", "t", "o", "r", "a", "t", "e">>, <<"B", "a", "c", "h", "e", "l", "o", "r", "s">>, <<"B", "S">>, <<"B", "A">>>>

RECURSIVE FirstDegreeKeyword(_, _)
\* the first keyword of degree_keywords, from the k-th on, found in program_text
FirstDegreeKeyword(text, k) ==
    IF k > Len(DegreeKeywords) THEN 0
    ELSE IF Contains(text, DegreeKeywords[k]) THEN k
    ELSE FirstDegreeKeyword(text, k + 1)

\* parts[0].strip() of program_text.split(degree)
BeforeKeyword(text, k) == Strip(SubSeq(text, 1, FindFrom(text, DegreeKeywords[k], 1) - 1))

SplitProgramAt(text, k) ==
    IF k = 0 THEN <<text, <<>> >>
    ELSE IF BeforeKeyword(text, k) = <<>> THEN <<text, DegreeKeywords[k]>>
    ELSE <<BeforeKeyword(text, k), DegreeKeywords[k]>>

\* <<program_name, degree_type>> of the program cell's text
SplitProgram(program_text) ==
    IF program_text = <<>> THEN << <<>>, <<>> >>
    ELSE SplitProgramAt(program_text, FirstDegreeKeyword(program_text, 1))

DecisionWords == {Label.Accepted, Label.Rejected, Label.Waitlisted, Label.Interview}

\* (.+): the characters from position i up to the line's end
RestOfLine(s, i) == SubSeq(s, i, i + CharRun(s, i, {s[j] : j \in 1..Len(s)} \ {"\n"}) - 1)

\* "\s+(.+)" after "on", the text being stripped
DecisionTail(s, j, b) ==
    IF b >= 1 /\ j + b <= Len(s) THEN RestOfLine(s, j + b) ELSE NoMatch

\* "\s+on" after the status word, then the tail
DecisionOn(s, j, a) ==
    IF a >= 1 /\ StartsAt(s, j + a, Word.on)
    THEN DecisionTail(s, j + a + 2, CharRun(s, j + a + 2, {" ", "\t", "\n"}))
    ELSE NoMatch

\* (Accepted|Rejected|Waitlisted|Interview)\s+on\s+(.+) matched at position i
DecisionAt(s, i, w) ==
    IF StartsAt(s, i, w) /\ DecisionOn(s, i + Len(w), CharRun(s, i + Len(w), {" ", "\t", "\n"})) # NoMatch
    THEN <<w, DecisionOn(s, i + Len(w), CharRun(s, i + Len(w), {" ", "\t", "\n"}))>>
    ELSE NoMatch

DecisionHits(s) == {i \in 1..Len(s) : \E w \in DecisionWords : DecisionAt(s, i, w) # NoMatch}

DecisionAtFirst(s, i) == DecisionAt(s, i, CHOOSE w \in DecisionWords : DecisionAt(s, i, w) # NoMatch)

\* <<decision_status, decision_date>> of the decision cell's text
ParseDecision(decision_text) ==
    IF decision_text = <<>> THEN << <<>>, <<>> >>
    ELSE IF DecisionHits(decision_text) = {} THEN <<decision_text, <<>> >>
    ELSE DecisionAtFirst(decision_text, Least(DecisionHits(decision_text)))

BaseUrl == <<"h", "t", "t", "p", "s", ":", "/", "/", "w", "w", "w", ".", "t", "h", "e", "g", "r", "a", "d", "c", "a", "f", "e", ".", "c", "o", "m">>

RECURSIVE EntryUrl(_, _)
\* the first link, from the k-th on, whose href holds "result"
EntryUrl(hrefs, k) ==
    IF k > Len(hrefs) THEN <<>>
    ELSE IF Truthy(hrefs[k]) /\ Contains(hrefs[k], Word.result)
         THEN IF Head(hrefs[k]) = "/" THEN BaseUrl \o hrefs[k] ELSE hrefs[k]
    ELSE EntryUrl(hrefs, k + 1)

SemesterWords == {Label.Fall, Label.Spring, Label.Summer, Label.Winter}

\* (Fall|Spring|Summer|Winter)\s+(\d{4}) matched at position i
SemesterAt(s, i, w) ==
    /\ StartsAt(s, i, w)
    /\ CharRun(s, i + Len(w), {" ", "\t", "\n"}) >= 1
    /\ AllDigits(s, i + Len(w) + CharRun(s, i + Len(w), {" ", "\t", "\n"}), 4)

SemesterHits(s) == {i \in 1..Len(s) : \E w \in SemesterWords : SemesterAt(s, i, w)}

SemesterYearAt(s, i, w) ==
    w \o <<" ">> \o SubSeq(s, i + Len(w) + CharRun(s, i + Len(w), {" ", "\t", "\n"}),
                          i + Len(w) + CharRun(s, i + Len(w), {" ", "\t", "\n"}) + 3)

\* f"{group(1)} {group(2)}" of the first match, "" without one
ParseSemesterYear(s) ==
    IF SemesterHits(s) = {} THEN <<>>
    ELSE SemesterYearAt(s, Least(SemesterHits(s)),
                        CHOOSE w \in SemesterWords : SemesterAt(s, Least(SemesterHits(s)), w))

ParseInternational(s) ==
    IF Contains(s, Label.International) THEN Label.International
    ELSE IF Contains(s, Label.American) \/ Contains(s, Word.Domestic) THEN Label.American
    ELSE <<>>

\* label, "\s+", mark, sep*, (chars+) matched at position i: the start of the
\* group, 0 without a match
ScoreGroupStart(s, i, label, mark, sep, chars) ==
    IF /\ StartsAt(s, i, label)
       /\ CharRun(s, i + Len(label), {" ", "\t", "\n"}) >= 1
       /\ StartsAt(s, i + Len(label) + CharRun(s, i + Len(label), {" ", "\t", "\n"}), mark)
       /\ CharRun(s, i + Len(label) + CharRun(s, i + Len(label), {" ", "\t", "\n"}) + Len(mark)
                     + CharRun(s, i + Len(label) + CharRun(s, i + Len(label), {" ", "\t", "\n"}) + Len(mark), sep),
                  chars) >= 1
    THEN i + Len(label) + CharRun(s, i + Len(label), {" ", "\t", "\n"}) + Len(mark)
           + CharRun(s, i + Len(label) + CharRun(s, i + Len(label), {" ", "\t", "\n"}) + Len(mark), sep)
    ELSE 0

ScoreHits(s, label, mark, sep, chars) ==
    {i \in 1..Len(s) : ScoreGroupStart(s, i, label, mark, sep, chars) # 0}

GroupFrom(s, g, chars) == SubSeq(s, g, g + CharRun(s, g, chars) - 1)

\* group(1) of the first match, "" without one
ParseScore(s, label, mark, sep, chars) ==
    IF ScoreHits(s, label, mark, sep, chars) = {} THEN <<>>
    ELSE GroupFrom(s, ScoreGroupStart(s, Least(ScoreHits(s, label, mark, sep, chars)),
                                      label, mark, sep, chars), chars)

\* GPA\s+([\d.]+)
ParseGpa(s) == ParseScore(s, Word.GPA, <<>>, {}, Digits \cup {"."})
\* GRE\s+V[:\s]*([\d]+)
ParseGreVerbal(s) == ParseScore(s, Word.GRE, Word.V, {":", " ", "\t", "\n"}, Digits)
\* GRE\s+Q[:\s]*([\d]+)
ParseGreQuant(s) == ParseScore(s, Word.GRE, Word.Q, {":", " ", "\t", "\n"}, Digits)
\* GRE\s+AW[:\s]*([\d.]+)
ParseGreAw(s) == ParseScore(s, Word.GRE, Word.AW, {":", " ", "\t", "\n"}, Digits \cup {"."})

\* decision_date whatever the status
DateIfStatus_unconditional(status, date, word) == date
\* decision_date if decision_status.lower() == word else None
DateIfStatus_mutant(status, date, word) == IF Lower(status) = word THEN date ELSE PyNone
\* decision_date if decision_status.lower() == word else ""
DateIfStatus(status, date, word) == IF Lower(status) = word THEN date ELSE <<>>

\* a gre_score written as "V:165, Q=160", which the cleaner's 'Q:' split misses
GreScoreText_mutant(gre_verbal, gre_quant) ==
    IF gre_verbal # <<>> \/ gre_quant # <<>>
    THEN <<"V", ":">> \o gre_verbal \o <<",", " ", "Q", "=">> \o gre_quant
    ELSE <<>>
\* f"V:{gre_verbal}, Q:{gre_quant}" if gre_verbal or gre_quant else ""
GreScoreText(gre_verbal, gre_quant) ==
    IF gre_verbal # <<>> \/ gre_quant # <<>>
    THEN <<"V", ":">> \o gre_verbal \o <<",", " ", "Q", ":">> \o gre_quant
    ELSE <<>>

\* "next_row and len(next_row.find_all('td')) >= 1"
IsDetailRow_mutant(next_row) == next_row # NoEntry /\ NumCells(next_row) >= 1
\* next_row and len(next_row.find_all('td')) == 1
IsDetailRow(next_row) == next_row # NoEntry /\ NumCells(next_row) = 1

\* next_row.get_text(strip=True) when the detail row is parsed, "" otherwise:
\* every detail field starts as "" and a parser without a match leaves it so
DetailText(next_row) == IF IsDetailRow(next_row) THEN GetText(next_row.cells[1]) ELSE <<>>

\* the dict _extract_entry_data returns
RawEntry(institution, program, date_added, decision, entry_url, detail_text) ==
    [program_name |-> program[1],
     university |-> institution,
     comments |-> <<>>,
     date_added |-> date_added,
     url |-> entry_url,
     applicant_status |-> decision[1],
     acceptance_date |-> DateIfStatus(decision[1], decision[2], Word.accepted),
     rejection_date |-> DateIfStatus(decision[1], decision[2], Word.rejected),
     semester_year |-> ParseSemesterYear(detail_text),
     international_american |-> ParseInternational(detail_text),
     gre_score |-> GreScoreText(ParseGreVerbal(detail_text), ParseGreQuant(detail_text)),
     gre_verbal |-> ParseGreVerbal(detail_text),
     degree_type |-> program[2],
     gpa |-> ParseGpa(detail_text),
     gre_aw |-> ParseGreAw(detail_text)]

\* _extract_entry_data(row, next_row): None for a short row and when anything raises
ExtractEntryData(row, next_row) ==
    IF row.raises \/ NumCells(row) < 4 THEN NoEntry
    ELSE RawEntry(GetText(row.cells[1]),
                  SplitProgram(GetText(row.cells[2])),
                  GetText(row.cells[3]),
                  ParseDecision(GetText(row.cells[4])),
                  EntryUrl(row.hrefs, 1),
                  DetailText(next_row))

-----------------------------------------------------------------------------
(* scrape.py: GradCafeScraper._scrape_page, one action per row-loop iteration *)

Row(cells, hrefs, raises) == [cells |-> cells, hrefs |-> hrefs, raises |-> raises]

\* the primary row and the detail row of a results table entry
MitRow == Row(<<<<"M", "I", "T">>, <<"B", "i", "o", "m", "e", "d", "i", "c", "a", "l", " ", "E", "n", "g", "i", "n", "e", "e", "r", "i", "n", "g", "M", "a", "s", "t", "e", "r", "s">>, <<"1", "2", " ", "J", "a", "n">>, <<"A", "c", "c", "e", "p", "t", "e", "d", " ", "o", "n", " ", "1", " ", "J", "u", "n">>>>, <<<<"/", "r", "e", "s", "u", "l", "t", "/", "1">>>>, FALSE)
MitDetailRow == Row(<<<<"F", "a", "l", "l", " ", "2", "0", "2", "5", " ", "I", "n", "t", "e", "r", "n", "a", "t", "i", "o", "n", "a", "l", " ", "G", "P", "A", " ", "3", ".", "8", " ", "G", "R", "E", " ", "V", ":", "1", "6", "5", " ", "G", "R", "E", " ", "Q", ":", "1", "6", "0">>>>, <<>>, FALSE)
\* a primary row with padded cells, a fifth cell and no link
YaleRow == Row(<<<<" ", "Y", "a", "l", "e", " ">>, <<"P", "h", "D">>, <<>>, <<"R", "e", "j", "e", "c", "t", "e", "d", " ", " ", "o", "n", " ", "2", " ", "J", "u", "n">>, <<"x">>>>, <<>>, FALSE)
\* a primary row whose institution cell is empty
NamelessRow == Row(<<<<>>, <<"M", "a", "t", "h">>, <<"3", " ", "F", "e", "b">>, <<"W", "a", "i", "t", " ", "l", "i", "s", "t", "e", "d">>>>, <<PyNone, <<"x", "/", "r", "e", "s", "u", "l", "t">>>>, FALSE)

\* the rows a results table is made of
SampleRows ==
    {MitRow, MitDetailRow, YaleRow, NamelessRow,
     Row(<<<<"M", "I", "T">>, <<"B", "i", "o", " ", "M", "S">>, <<"1", "2", " ", "J", "a", "n">>, <<"I", "n", "t", "e", "r", "v", "i", "e", "w", " ", "o", "n", " ", "5", " ", "M", "a", "y">>>>, <<>>, TRUE),
     Row(<<<<"M", "I", "T">>, <<"B", "i", "o">>, <<"1", "2", " ", "J", "a", "n">>>>, <<>>, FALSE),
     Row(<<<<"F", "a", "l", "l", " ", "2", "0", "2", "5", " ", "I", "n", "t", "e", "r", "n", "a", "t", "i", "o", "n", "a", "l", " ", "G", "P", "A", " ", "3", ".", "8", " ", "G", "R", "E", " ", "V", " ", "1", "6", "5", " ", "G", "R", "E", " ", "Q", ":", " ", "1", "6", "0", " ", "G", "R", "E", " ", "A", "W", " ", "4", ".", "5">>>>, <<>>, FALSE),
     Row(<<<<"S", "p", "r", "i", "n", "g", " ", " ", "2", "0", "2", "4", " ", "D", "o", "m", "e", "s", "t", "i", "c", " ", "G", "R", "E", " ", "V", ":", "1", "5", "0">>>>, <<>>, FALSE),
     Row(<<>>, <<>>, FALSE)}

PageRowLists == SeqsUpTo(SampleRows, MaxRows)


\* len(cells) >= 4
IsPrimaryRow(row) == NumCells(row) >= 4

\* rows[i + 1] if i + 1 < len(rows) else None
NextRow(rs, i) == IF i + 1 < Len(rs) THEN rs[i + 2] ELSE NoEntry

\* the row before rows[i] taken as the detail row when it has one cell
DetailRowOf_mutant(rs, i) == IF i >= 1 /\ IsDetailRow(rs[i]) THEN i ELSE 0
\* the position in rows (from 1) of detail_row, 0 for None
DetailRowOf(rs, i) == IF IsDetailRow(NextRow(rs, i)) THEN i + 2 ELSE 0

RowAt(rs, k) == IF k = 0 THEN NoEntry ELSE rs[k]

\* _scrape_page up to the loop: the request, the table, rows, page_data = [], i = 0
ScrapePageCall ==
    /\ page_pc = "idle"
    /\ \E f \in FetchOutcomes :
           /\ fetch' = f
           /\ page_pc' = IF f = "table" THEN "loop" ELSE "done"
           /\ IF f = "table" THEN rows' \in PageRowLists ELSE rows' = <<>>
    /\ row_i' = 0
    /\ page_data' = <<>>
    /\ extract_calls' = <<>>
    /\ UNCHANGED <<cleanerVars, pipeVars, scraperVars, parserVars, orderVars>>

\* the body of "while i < len(rows)" for a row, its detail row at position d
ScanRow(row, d) ==
    /\ extract_calls' = Append(extract_calls,
                               [row |-> row_i + 1, detail |-> d,
                                made |-> ExtractEntryData(row, RowAt(rows, d)) # NoEntry])
    /\ page_data' = IF ExtractEntryData(row, RowAt(rows, d)) # NoEntry
                    THEN Append(page_data, ExtractEntryData(row, RowAt(rows, d)))
                    ELSE page_data
    /\ row_i' = IF d # 0 THEN row_i + 2 ELSE row_i + 1

\* one iteration of "while i < len(rows)"
ScrapePageStep ==
    /\ page_pc = "loop"
    /\ row_i < Len(rows)
    /\ IF IsPrimaryRow(rows[row_i + 1])
       THEN ScanRow(rows[row_i + 1], DetailRowOf(rows, row_i))
       ELSE /\ row_i' = row_i + 1
            /\ UNCHANGED <<page_data, extract_calls>>
    /\ UNCHANGED <<page_pc, fetch, rows>>
    /\ UNCHANGED <<cleanerVars, pipeVars, scraperVars, parserVars, orderVars>>

\* the loop test fails: return page_data
ScrapePageReturn ==
    /\ page_pc = "loop"
    /\ ~(row_i < Len(rows))
    /\ page_pc' = "done"
    /\ UNCHANGED <<fetch, rows, row_i, page_data, extract_calls>>
    /\ UNCHANGED <<cleanerVars, pipeVars, scraperVars, parserVars, orderVars>>

PageNext == ScrapePageCall \/ ScrapePageStep \/ ScrapePageReturn

PageInit == PageIdle /\ CleanerInit /\ PipelineOff /\ ScraperInit /\ ParserIdle /\ OrderIdle

SpecPage == PageInit /\ [][PageNext]_vars

\* the records of the page are what the cleaner is given: scrape_data saves
\* them as JSON and clean_data loads them and calls cleaner.clean_data
CleanPageData ==
    /\ page_pc = "done"
    /\ pipe_pc = "off"
    /\ CleanBegin(page_data, FALSE)
    /\ UNCHANGED <<pipeVars, scraperVars, pageVars, parserVars, orderVars>>

EndToEndNext == PageNext \/ CleanPageData \/ CleanStep \/ CleanReturn

\* one page scraped and then cleaned
SpecEndToEnd == PageInit /\ [][EndToEndNext]_vars

-----------------------------------------------------------------------------
(* Claims about the cleaner *)

\* C1: after every clean_data call has returned, also a second or later call
\* on the same cleaner, cleaned_entries + removed_entries = total_entries.
C1_StatsBalance ==
    clean_pc = "idle" =>
        cleaning_stats.cleaned_entries + cleaning_stats.removed_entries
            = cleaning_stats.total_entries

\* a cleaned name that is there: neither '' nor an exception
NonEmptyText(v) == v # <<>> /\ v # Raise

BothNamesNonEmpty(r) ==
    /\ NonEmptyText(CleanText(Get(r, "university")))
    /\ NonEmptyText(CleanText(Get(r, "program_name")))

\* C2 as stated: a record is admitted iff its cleaned university and its
\* cleaned program_name are both non-empty, whatever its other fields hold.
C2_AdmittedIffNamesNonEmpty ==
    (clean_pc = "idle" /\ clean_calls > 0) =>
        Len(cleaned_data)
            = Cardinality({i \in 1..Len(raw_data) : BothNamesNonEmpty(raw_data[i])})

\* c is the cleaning of a record: no parser raised, and both cleaned names hold
\* a non-blank character
Admissible(c) ==
    /\ ~RaisedIn(c)
    /\ Strip(c.university) # <<>>
    /\ Strip(c.program_name) # <<>>

\* acc, extended by the cleaning c of the next record when it is admissible
WithAdmitted(acc, c) == IF Admissible(c) THEN Append(acc, c) ELSE acc

RECURSIVE AdmittedOf(_, _)
\* the cleaned versions of the admissible records among the first n of raw
AdmittedOf(raw, n) ==
    IF n = 0 THEN <<>>
    ELSE IF ~IsDict(raw[n]) THEN AdmittedOf(raw, n - 1)
    ELSE WithAdmitted(AdmittedOf(raw, n - 1), CleanedFields(raw[n]))

\* C2 amended: a record is admitted iff no field parser raises on it and its
\* cleaned university and program_name are both non-blank (non-empty after
\* strip); every record of the output has university # "" and program_name # "".
C2_AdmissionRule ==
    /\ (clean_pc = "loop" \/ clean_calls > 0) =>
           cleaned_data = AdmittedOf(raw_data, clean_i - 1)
    /\ \A j \in 1..Len(cleaned_data) :
           cleaned_data[j].university # <<>> /\ cleaned_data[j].program_name # <<>>

\* a call returned that admitted one record and dropped two others: one whose
\* gpa made a parser raise and one whose university cleaned to a blank
C2_Witness ==
    /\ clean_pc = "idle"
    /\ clean_calls > 0
    /\ Len(raw_data) = 2
    /\ Len(cleaned_data) = 1
    /\ \E i \in 1..2 :
           \/ Get(raw_data[i], "gpa") = PyFloat
           \/ CleanText(Get(raw_data[i], "university")) = <<" ">>

\* the fields C3 names
IdempotentFields ==
    {"program_name", "university", "comments", "applicant_status", "date_added",
     "acceptance_date", "rejection_date", "semester", "year",
     "international_american", "gpa", "gre_verbal", "gre_quantitative", "gre_aw",
     "degree_type"}

\* C3: feeding clean_data(R) back into clean_data admits every record again
\* and leaves every field of every record with the same value.
C3_Idempotent ==
    (clean_pc = "idle" /\ fed_back) =>
        /\ Len(cleaned_data) = Len(raw_data)
        /\ \A i \in 1..Len(cleaned_data) :
               \A f \in IdempotentFields : cleaned_data[i][f] = raw_data[i][f]

-----------------------------------------------------------------------------
(* Claims about the pipeline *)

PhaseOrder == <<"SCRAPING", "CLEANING", "REPORTING">>

\* C4: the phases run in the order SCRAPING, CLEANING, REPORTING, each at most
\* once; CLEANING starts only after scrape_data returned success, REPORTING
\* only after clean_data returned success, and nothing runs after a failure.
C4_PhaseOrder ==
    /\ Len(phase_log) <= 3
    /\ phase_log = SubSeq(PhaseOrder, 1, Len(phase_log))
    /\ Len(phase_log) >= 2 => scrape_ok = "ok"
    /\ Len(phase_log) >= 3 => clean_ok = "ok"
    /\ (scrape_ok = "fail" \/ clean_ok = "fail") => (pipe_pc = "done" /\ result = "False")

\* the pipeline ended after a clean phase that failed behind a scrape phase
\* that succeeded
C4_Witness ==
    /\ pipe_pc = "done"
    /\ phase_log = <<"SCRAPING", "CLEANING">>
    /\ scrape_ok = "ok"
    /\ clean_ok = "fail"

\* C5: run_full_pipeline returns False whenever one of its three steps fails,
\* the report step included.
C5_FailureReported ==
    (pipe_pc = "done"
        /\ (scrape_ok = "fail" \/ clean_ok = "fail" \/ report_ok = "fail"))
    => result = "False"

-----------------------------------------------------------------------------
(* Claims about the pagination loop *)

\* a _scrape_page call is made in this step
PageRequested == req_count' = req_count + 1

\* C6: the pages requested are 1, 2, 3, ... without gap or repeat; a page is
\* requested only while the accumulated count is below max_entries, the page
\* before it was not empty and fewer than 1000 pages were requested; and the
\* loop ends only when one of the three holds.
C6_Pagination ==
    /\ [][req_count' # req_count =>
            \/ (req_count' = 0 /\ scr_pc = "idle")
            \/ /\ PageRequested
               /\ req_last' = req_count + 1
               /\ total_entries < max_entries
               /\ (req_count > 0 => last_yield > 0)
               /\ req_count < 1000]_vars
    /\ []((scr_pc = "done" /\ robots_ok) =>
            \/ total_entries >= max_entries
            \/ (req_count > 0 /\ last_yield = 0)
            \/ req_count = 1000)

\* a call stopped by each of the three conditions exists; this one was stopped
\* by an empty third page
C6_Witness ==
    /\ scr_pc = "done"
    /\ robots_ok
    /\ req_count = 3
    /\ req_last = 3
    /\ last_yield = 0
    /\ total_entries < max_entries

\* C7: scrape_data terminates, for every max_entries and whatever the pages
\* return, after requesting at most 1000 pages: no more than 1000 requests are
\* ever made and the call is not inside its loop for ever (a call is made once
\* and stays returned, so it leaves the loop for good).
C7_Terminates ==
    /\ [](req_count <= 1000)
    /\ []<>(scr_pc # "loop")

\* a call whose pages all held records was stopped by the page ceiling
C7_Witness ==
    /\ scr_pc = "done"
    /\ req_count = 1000
    /\ last_yield > 0
    /\ total_entries < max_entries

-----------------------------------------------------------------------------
(* Claims about the row loop and the extractor *)

PrimaryRows == {k \in 1..Len(rows) : NumCells(rows[k]) >= 4}

\* the records of the calls that returned one, in call order
RECURSIVE RecordsOf(_, _)
RecordsOf(cs, rs) ==
    IF cs = <<>> THEN <<>>
    ELSE (IF Head(cs).made
          THEN <<ExtractEntryData(rs[Head(cs).row], RowAt(rs, Head(cs).detail))>>
          ELSE <<>>) \o RecordsOf(Tail(cs), rs)

\* C8: when the page has been scanned, the rows extracted as primary are exactly
\* those with at least 4 cells; a primary row has the row after it attached as
\* detail iff that row has exactly 1 cell; the rows handed to the extractor are
\* strictly increasing (no row twice); the records are the extractions in row
\* order; and without an extraction error there is one record per row with at
\* least 4 cells.
C8_RowPairing ==
    (page_pc = "done" /\ fetch = "table") =>
        /\ {extract_calls[c].row : c \in 1..Len(extract_calls)} = PrimaryRows
        /\ \A c \in 1..Len(extract_calls) :
               extract_calls[c].detail =
                   IF extract_calls[c].row < Len(rows)
                      /\ Len(rows[extract_calls[c].row + 1].cells) = 1
                   THEN extract_calls[c].row + 1 ELSE 0
        /\ \A c, d \in 1..Len(extract_calls) :
               c < d => /\ extract_calls[c].row < extract_calls[d].row
                        /\ extract_calls[c].detail < extract_calls[d].row
        /\ page_data = RecordsOf(extract_calls, rows)
        /\ (\A k \in 1..Len(rows) : ~rows[k].raises) =>
               Len(page_data) = Cardinality(PrimaryRows)

\* a scanned page with two primary rows, the first with a detail row, the
\* second followed by a row that is no detail row
C8_Witness ==
    /\ page_pc = "done"
    /\ Len(rows) = 3
    /\ Len(page_data) = 2
    /\ extract_calls[1].detail = 2
    /\ extract_calls[2].detail = 0
    /\ extract_calls[2].row = 3

\* single-cell rows that do not come right after a row with at least 4 cells
LoneRows ==
    {k \in 1..Len(rows) : Len(rows[k].cells) = 1 /\ (k = 1 \/ Len(rows[k - 1].cells) < 4)}

DetailKeys == {"semester_year", "international_american", "gre_score", "gre_verbal", "gpa", "gre_aw"}

\* the position in extract_calls of the call that made the j-th record
CallOfRecord(j) ==
    CHOOSE c \in 1..Len(extract_calls) :
        /\ extract_calls[c].made
        /\ Cardinality({b \in 1..c : extract_calls[b].made}) = j

\* C9: no record comes from a row with fewer than 4 cells; a lone single-cell
\* row is handed to the extractor neither as a row nor as a detail row; and a
\* record made without a detail row has every detail field empty, whatever
\* single-cell rows stand elsewhere on the page.
C9_NoStrayRows ==
    /\ \A c \in 1..Len(extract_calls) :
           /\ extract_calls[c].made => Len(rows[extract_calls[c].row].cells) >= 4
           /\ extract_calls[c].row \notin LoneRows
           /\ extract_calls[c].detail \notin LoneRows
    /\ Len(page_data) = Cardinality({c \in 1..Len(extract_calls) : extract_calls[c].made})
    /\ \A j \in 1..Len(page_data) :
           extract_calls[CallOfRecord(j)].detail = 0 =>
               \A key \in DetailKeys : page_data[j][key] = <<>>

\* a scanned page: a lone single-cell row, a short row, then a primary row
\* whose record has no detail
C9_Witness ==
    /\ page_pc = "done"
    /\ Len(rows) = 3
    /\ 1 \in LoneRows
    /\ Len(rows[2].cells) = 3
    /\ Len(page_data) = 1
    /\ extract_calls[1].row = 3

\* C10: every record the extractor produced has exactly the 15 keys, each
\* holding a string (the empty string when there is no data).
C10_FifteenKeys ==
    \A j \in 1..Len(page_data) :
        /\ DOMAIN page_data[j] =
               {"program_name", "university", "comments", "date_added", "url",
                "applicant_status", "acceptance_date", "rejection_date", "semester_year",
                "international_american", "gre_score", "gre_verbal", "degree_type",
                "gpa", "gre_aw"}
        /\ Cardinality(DOMAIN page_data[j]) = 15
        /\ \A key \in DOMAIN page_data[j] : IsStr(page_data[j][key])

\* one record made with a detail row, one without: the second has no decision
\* date and no detail field
C10_Witness ==
    /\ page_pc = "done"
    /\ Len(page_data) = 2
    /\ extract_calls[1].detail # 0
    /\ extract_calls[2].detail = 0
    /\ page_data[1].gpa # <<>>
    /\ page_data[2].gpa = <<>>
    /\ page_data[2].acceptance_date = <<>>
    /\ page_data[2].rejection_date = <<>>

\* C11: in every raw record at most one of acceptance_date and rejection_date
\* is non-empty; acceptance_date is non-empty only with the status Accepted,
\* rejection_date only with the status Rejected.
C11_DatesExclusive ==
    \A j \in 1..Len(page_data) :
        /\ ~(page_data[j].acceptance_date # <<>> /\ page_data[j].rejection_date # <<>>)
        /\ page_data[j].acceptance_date # <<>> => page_data[j].applicant_status = <<"A", "c", "c", "e", "p", "t", "e", "d">>
        /\ page_data[j].rejection_date # <<>> => page_data[j].applicant_status = <<"R", "e", "j", "e", "c", "t", "e", "d">>

\* a page with an accepted and a rejected listing, each with its decision date
C11_Witness ==
    /\ page_pc = "done"
    /\ \E j \in 1..Len(page_data) :
           page_data[j].acceptance_date # <<>> /\ page_data[j].rejection_date = <<>>
    /\ \E j \in 1..Len(page_data) :
           page_data[j].rejection_date # <<>> /\ page_data[j].acceptance_date = <<>>

\* cleaning r fails internally: r is no dict, or a field parser raises on it
FailsInternally(r) == ~IsDict(r) \/ RaisedIn(CleanedFields(r))

CleansWithoutError(r) == ~FailsInternally(r)

RECURSIVE CleanedOf(_)
\* what cleaning the records of raw one by one gives
CleanedOf(raw) ==
    IF raw = <<>> THEN <<>>
    ELSE (IF CleanEntry(Head(raw)) # NoEntry THEN <<CleanEntry(Head(raw))>> ELSE <<>>)
             \o CleanedOf(Tail(raw))

\* C12: the loop step on a record whose cleaning fails internally drops that
\* record, adds one to removed_entries and goes on with the next record; and
\* the list a call returns is what cleaning the input without its failing
\* records gives.
C12_RecordScopedFailure ==
    /\ [][(clean_pc = "loop" /\ clean_i <= Len(raw_data) /\ FailsInternally(raw_data[clean_i])) =>
              /\ cleaned_data' = cleaned_data
              /\ cleaning_stats' = [cleaning_stats EXCEPT !.removed_entries = @ + 1]
              /\ clean_pc' = "loop"
              /\ clean_i' = clean_i + 1]_vars
    /\ []((clean_pc = "idle" /\ clean_calls > 0) =>
              cleaned_data = CleanedOf(SelectSeq(raw_data, CleansWithoutError)))

\* a returned call on two records: the first failed and was counted as
\* removed, the second was cleaned
C12_Witness ==
    /\ clean_pc = "idle"
    /\ clean_calls = 1
    /\ Len(raw_data) = 2
    /\ FailsInternally(raw_data[1])
    /\ cleaned_data = <<CleanEntry(raw_data[2])>>
    /\ cleaning_stats.removed_entries = 1
    /\ cleaning_stats.cleaned_entries = 1

-----------------------------------------------------------------------------
(* Claims about the clean phase *)

\* C13: while clean_data runs, the list it was given and every record in it
\* stay as they were; the clean phase leaves the raw artifact file as it is,
\* so the list loaded from it still equals its content while the phase runs.
C13_RawUntouched ==
    /\ [][clean_pc = "loop" => raw_data' = raw_data]_vars
    /\ [][(pipe_pc = "clean" \/ pipe_pc = "cleaning") => (raw_file' = raw_file)]_vars
    /\ [](pipe_pc = "cleaning" => raw_data = raw_file.data)

\* a clean phase that ended well: two raw records, still those of the raw
\* file, and a cleaned file that differs from them
C13_Witness ==
    /\ clean_ok = "ok"
    /\ Len(raw_data) = 2
    /\ raw_file = FileOf(raw_data)
    /\ clean_file.exists
    /\ clean_file.data = cleaned_data
    /\ cleaned_data # raw_data
    /\ cleaned_data # <<>>

\* C14: the clean phase started without a raw file ends at once with failure:
\* the cleaner is not called, the cleaned file is left as it is, the pipeline
\* ends with False; and after a failed clean phase CLEANING was logged once,
\* REPORTING never, and no report was written.
C14_NoRawFileAborts ==
    /\ [][(pipe_pc = "clean" /\ ~raw_file.exists) =>
              /\ clean_ok' = "fail"
              /\ pipe_pc' = "done"
              /\ result' = "False"
              /\ clean_file' = clean_file
              /\ UNCHANGED cleanerVars]_vars
    /\ [](clean_ok = "fail" =>
              /\ phase_log = <<"SCRAPING", "CLEANING">>
              /\ pipe_pc = "done"
              /\ report_file = NoFile)

\* the raw file could not be written and none was there: the clean phase
\* failed without the cleaner having been called
C14_Witness ==
    /\ pipe_pc = "done"
    /\ scrape_ok = "ok"
    /\ ~raw_file.exists
    /\ clean_ok = "fail"
    /\ clean_calls = 0
    /\ result = "False"

-----------------------------------------------------------------------------
(* Claims about failed page requests *)

FetchFailed(f) == f = "transport_error" \/ f = "bad_status" \/ f = "no_table"

\* C15: when the request for page N ends in a transport error, a status other
\* than 200 or a page without table, scrape_data returns (it does not raise):
\* the loop ends at N, nothing is added to the records collected so far, they
\* are what is returned, and no request is made after the call returned.
C15_FailedPageEndsPagination ==
    /\ [][(PageRequested /\ FetchFailed(fetch')) =>
              /\ scr_pc' = "done"
              /\ req_last' = page_num
              /\ scraped_len' = scraped_len
              /\ total_entries' = total_entries
              /\ returned_len' = scraped_len]_vars
    /\ [][scr_pc = "done" => (req_count' = req_count /\ returned_len' = returned_len)]_vars

\* pages 1 and 2 gave a record each, the request for page 3 failed, and the
\* two records were returned although more were asked for
C15_Witness ==
    /\ scr_pc = "done"
    /\ fetch = "transport_error"
    /\ req_count = 3
    /\ req_last = 3
    /\ returned_len = 2
    /\ total_entries = 2
    /\ max_entries > 2

-----------------------------------------------------------------------------
(* Claims about a row pair scraped and cleaned *)

\* the fields of cleaned record c that come from the detail row
DetailFields(c) ==
    [semester |-> c.semester, year |-> c.year,
     international_american |-> c.international_american,
     gpa |-> c.gpa, gre_verbal |-> c.gre_verbal,
     gre_quantitative |-> c.gre_quantitative]

\* the page held one row pair, whose detail row is that of the MIT example,
\* and was scraped and cleaned
PairCleaned ==
    /\ page_pc = "done"
    /\ clean_pc = "idle"
    /\ clean_calls > 0
    /\ Len(rows) = 2
    /\ IsPrimaryRow(rows[1])
    /\ rows[2] = MitDetailRow

-----------------------------------------------------------------------------
(* Claims about the field parsers *)

\* the digits of a formatted number, read as a natural number
DigitsValue(s) == ToNat(SelectSeq(s, IsDigit))

\* C17: _clean_gpa returns what the range rule gives for the first decimal
\* number of its input text (v with 2 decimals for 0 <= v <= 4, v/10*4 with 2
\* decimals for 4 < v <= 10, empty otherwise), and a non-empty result is a
\* value from 0.00 to 4.00.
C17_FirstNumberRescaled ==
    parser = "_clean_gpa" =>
        /\ parser_res = GpaOfText(parser_arg)
        /\ parser_res # <<>> =>
               (Len(parser_res) = 4 /\ parser_res[2] = "." /\ DigitsValue(parser_res) <= 400)

\* C18: _clean_gre_score returns the first integer of its input text when it
\* is in 130..170 or 200..800 and the empty string otherwise; _clean_gre_aw
\* returns the first number of its input text with 1 decimal when it is in
\* 0.0..6.0 and the empty string otherwise; so the values they give to the
\* GRE fields of a clean record are empty or in range.
C18_FirstNumberInRange ==
    /\ parser = "_clean_gre_score" =>
           /\ parser_res = GreOfText(parser_arg)
           /\ parser_res # <<>> =>
                  \/ (130 <= DigitsValue(parser_res) /\ DigitsValue(parser_res) <= 170)
                  \/ (200 <= DigitsValue(parser_res) /\ DigitsValue(parser_res) <= 800)
    /\ parser = "_clean_gre_aw" =>
           /\ parser_res = AwOfText(parser_arg)
           /\ parser_res # <<>> =>
                  (Len(parser_res) = 3 /\ parser_res[2] = "." /\ DigitsValue(parser_res) <= 60)

\* text has one of the words ws in it, whatever the case of its letters
HasAny(text, ws) == \E w \in ws : Contains(Lower(text), w)

StatusLabels == {Label.Accepted, Label.Rejected, Label.Waitlisted, Label.Interview}

\* the label the keyword sets give to text, tested in the listed order;
\* <<>> when no keyword occurs
KeywordLabel(text) ==
    IF HasAny(text, {<<"a", "c", "c", "e", "p", "t">>, <<"a", "d", "m", "i", "t">>}) THEN <<"A", "c", "c", "e", "p", "t", "e", "d">>
    ELSE IF HasAny(text, {<<"r", "e", "j", "e", "c", "t">>, <<"d", "e", "n">>}) THEN <<"R", "e", "j", "e", "c", "t", "e", "d">>
    ELSE IF HasAny(text, {<<"w", "a", "i", "t">>, <<"l", "i", "s", "t">>}) THEN <<"W", "a", "i", "t", "l", "i", "s", "t", "e", "d">>
    ELSE IF HasAny(text, {<<"i", "n", "t", "e", "r", "v", "i", "e", "w">>}) THEN <<"I", "n", "t", "e", "r", "v", "i", "e", "w">>
    ELSE <<>>

\* C19 as stated: without a keyword the result is the title-cased input, and
\* the result is one of the four labels, the title-cased input, or empty for
\* empty input
C19_TitleCasedInput ==
    parser = "_standardize_decision_status" =>
        /\ KeywordLabel(parser_arg) # <<>> => parser_res = KeywordLabel(parser_arg)
        /\ KeywordLabel(parser_arg) = <<>> => parser_res = Title(parser_arg)
        /\ parser_res \in StatusLabels \cup {Title(parser_arg)}

\* C19 (amended): the keyword sets are tested in the listed order on the
\* input whatever its case; without a keyword the result is the title-cased
\* input stripped of leading and trailing whitespace, which is empty for an
\* empty or blank input.
C19_StatusStandardised ==
    parser = "_standardize_decision_status" =>
        /\ KeywordLabel(parser_arg) # <<>> => parser_res = KeywordLabel(parser_arg)
        /\ KeywordLabel(parser_arg) = <<>> => parser_res = Title(Strip(parser_arg))
        /\ parser_res \in StatusLabels \cup {Title(Strip(parser_arg))}
        /\ Strip(parser_arg) = <<>> => parser_res = <<>>

\* a status without keyword, given with blanks around it
C19_Witness ==
    /\ parser = "_standardize_decision_status"
    /\ parser_arg = <<" ", "p", "e", "n", "d", "i", "n", "g", " ">>
    /\ parser_res = <<"P", "e", "n", "d", "i", "n", "g">>

-----------------------------------------------------------------------------
(* Claims about the semester, year and nationality of clean records *)

\* a 4-digit string of the form 20dd
IsYear20(y) ==
    /\ Len(y) = 4
    /\ y[1] = "2"
    /\ y[2] = "0"
    /\ IsDigit(y[3])
    /\ IsDigit(y[4])

\* C20: in every clean record semester is Fall, Spring, Summer, Winter or
\* empty, year is empty or a 4-digit string 20dd, and international_american
\* is International, American or empty. (That semester and year are derived
\* independently shows in the witness: each is set where the other is empty.)
C20_SemesterYearNationality ==
    \A j \in 1..Len(cleaned_data) :
        /\ cleaned_data[j].semester \in {<<"F", "a", "l", "l">>, <<"S", "p", "r", "i", "n", "g">>, <<"S", "u", "m", "m", "e", "r">>, <<"W", "i", "n", "t", "e", "r">>, <<>>}
        /\ cleaned_data[j].year = <<>> \/ IsYear20(cleaned_data[j].year)
        /\ cleaned_data[j].international_american \in {<<"I", "n", "t", "e", "r", "n", "a", "t", "i", "o", "n", "a", "l">>, <<"A", "m", "e", "r", "i", "c", "a", "n">>, <<>>}

\* one call returned a record with a semester and no year and a record with
\* a year and no semester
C20_Witness ==
    /\ clean_pc = "idle"
    /\ clean_calls = 1
    /\ Len(cleaned_data) = 2
    /\ cleaned_data[1].semester = <<"S", "p", "r", "i", "n", "g">>
    /\ cleaned_data[1].year = <<>>
    /\ cleaned_data[2].semester = <<>>
    /\ cleaned_data[2].year = <<"2", "0", "2", "4">>

-----------------------------------------------------------------------------
(* Claims about the summary report *)

\* the universities of the cleaned file, how often each occurs and where first
UniversitiesOf(data) == {data[i].university : i \in 1..Len(data)}
Occurrences(data, u) == Cardinality({i \in 1..Len(data) : data[i].university = u})
FirstSeen(data, u) == Least({i \in 1..Len(data) : data[i].university = u})

\* top, a list of <<university, count>>, is a top-10 of data as C21 describes
IsTopTenOf(top, data) ==
    /\ Len(top) <= 10
    /\ Len(top) = Min(10, Cardinality(UniversitiesOf(data)))
    /\ \A i \in 1..Len(top) :
           /\ top[i][1] \in UniversitiesOf(data)
           /\ top[i][2] = Occurrences(data, top[i][1])
    /\ \A i, j \in 1..Len(top) : i < j =>
           /\ top[i][1] # top[j][1]
           /\ top[i][2] >= top[j][2]
           /\ top[i][2] = top[j][2] => FirstSeen(data, top[i][1]) < FirstSeen(data, top[j][1])
    /\ \A u \in UniversitiesOf(data) \ {top[i][1] : i \in 1..Len(top)} :
           \A i \in 1..Len(top) :
               /\ Occurrences(data, u) <= top[i][2]
               /\ Occurrences(data, u) = top[i][2] => FirstSeen(data, top[i][1]) < FirstSeen(data, u)

\* C21: top_10_universities of a written report holds at most 10
\* universities with their counts, in non-increasing count order; a
\* university left out has no larger count than any one included; and among
\* equal counts the order, and the cut at 10, follow the order of first
\* occurrence in the cleaned data.
C21_TopTen ==
    report_ok = "ok" =>
        IsTopTenOf(report_file.data.top_10_universities, clean_file.data)

\* twelve universities, first met in reverse name order, two of them left
\* out although the tenth has the same count as they have
C21_Witness ==
    /\ report_ok = "ok"
    /\ Cardinality(UniversitiesOf(clean_file.data)) = 12
    /\ clean_file.data[1].university = <<"l">>
    /\ Len(report_file.data.top_10_universities) = 10
    /\ report_file.data.top_10_universities[1] = <<<<"b">>, 3>>
    /\ report_file.data.top_10_universities[10][2] = 1
    /\ report_file.data.top_10_universities[10][1] = <<"d">>

-----------------------------------------------------------------------------
(* Claims about the pizza order *)

\* the price of a pizza read off the menu
MenuPrice(p) ==
    CASE p.crust = "gluten_free" -> 15
      [] p.crust = "thin" /\ Len(p.sauce) = 1 -> 9
      [] p.crust = "thin" -> 17
      [] OTHER -> 10

\* C22: a new order costs 0, and every input_pizza call that adds a pizza
\* raises the cost of the order by exactly the cost of that pizza, which is
\* the sum of the prices of its crust, sauces, cheese and toppings; cost()
\* returns that cost.
C22_CostIsSumOfPizzas ==
    /\ Order_cost(NewOrder) = 0
    /\ [][/\ (order_call' = "input_pizza" /\ order_res' = PyNone) =>
                 /\ Order_cost(order') = Order_cost(order) + Pizza_cost(order_arg')
                 /\ Pizza_cost(order_arg') = MenuPrice(order_arg')
          /\ order_call' = "cost" => order_res' = Order_cost(order)]_vars

\* cost() called on an order of three pizzas, one of them twice
C22_Witness ==
    /\ order_call = "cost"
    /\ Len(order.pizzas) = 3
    /\ order.pizzas[1] = order.pizzas[3]
    /\ order.pizzas[1] # order.pizzas[2]
    /\ order_res = 17 + 15 + 17

C23_WitnessEmptyPaid ==
    /\ order_call = "order_paid"
    /\ order.paid
    /\ order.pizzas = <<>>

\* C24: input_pizza given a value that is not a Pizza raises TypeError and
\* leaves the pizzas, the cost and the paid flag of the order as they were.
C24_NonPizzaRejected ==
    [][(order_call' = "input_pizza" /\ order_arg'.type # "Pizza") =>
           /\ order_res' = TypeError
           /\ order'.pizzas = order.pizzas
           /\ Order_cost(order') = Order_cost(order)
           /\ order'.paid = order.paid]_vars

\* a dict with the attributes of a pizza was refused by a paid order of two pizzas
C24_Witness ==
    /\ order_call = "input_pizza"
    /\ order_arg.type = "dict"
    /\ order_res = TypeError
    /\ order.paid
    /\ Len(order.pizzas) = 2

-----------------------------------------------------------------------------
(* Claims about _clean_text *)

\* s holds a match of <[^>]+>
HasTag(s) ==
    \E i, j \in 1..Len(s) :
        /\ i + 1 < j
        /\ s[i] = "<"
        /\ s[j] = ">"
        /\ \A k \in (i + 1)..(j - 1) : s[k] # ">"

\* s holds two whitespace characters in a row
HasSpaceRun(s) == \E i \in 1..(Len(s) - 1) : IsSpace(s[i]) /\ IsSpace(s[i + 1])

\* s begins or ends with a whitespace character
HasOuterSpace(s) == s # <<>> /\ (IsSpace(s[1]) \/ IsSpace(s[Len(s)]))

\* C25: the text _clean_text returns holds no HTML tag and no character
\* outside the allowed set, neither begins nor ends with whitespace, and
\* holds no two whitespace characters in a row.
C25_TextNormalised ==
    parser = "_clean_text" =>
        /\ ~HasTag(parser_res)
        /\ \A i \in 1..Len(parser_res) : AllowedChar(parser_res[i])
        /\ ~HasOuterSpace(parser_res)
        /\ ~HasSpaceRun(parser_res)

-----------------------------------------------------------------------------
(* Claims about the order of the cleaned records *)

\* the positions of raw whose record clean_entry admits
AdmittedAt(raw) == {i \in 1..Len(raw) : CleanEntry(raw[i]) # NoEntry}

\* C26: the list a clean_data call returns holds, for every admitted record
\* of its input and for nothing else, the cleaning of that record alone, at
\* the place the record has among the admitted ones; this is so for a second
\* call on the same cleaner as well.
C26_IndependentInOrder ==
    (clean_pc = "idle" /\ clean_calls > 0) =>
        /\ Len(cleaned_data) = Cardinality(AdmittedAt(raw_data))
        /\ \A i \in AdmittedAt(raw_data) :
               cleaned_data[Cardinality({k \in AdmittedAt(raw_data) : k <= i})]
                   = CleanEntry(raw_data[i])

\* a second call on the same cleaner returned: its input of two records,
\* not the output of the first call, lost its first record and kept the second
C26_Witness ==
    /\ clean_pc = "idle"
    /\ clean_calls = 2
    /\ ~fed_back
    /\ Len(raw_data) = 2
    /\ AdmittedAt(raw_data) = {2}
    /\ cleaned_data = <<CleanEntry(raw_data[2])>>
    /\ cleaning_stats.cleaned_entries > 1

-----------------------------------------------------------------------------
(* Claims about _clean_date *)

\* what each of the four patterns finds in the cleaned text t, in list order
PatternMatches(t) ==
    <<SearchDayMonYear(t), SearchMonDayYear(t), SearchSlashDate(t), SearchIsoDate(t)>>

\* the place in the list of the first pattern that matches t, 0 when none does
FirstPattern(t) ==
    IF \A k \in 1..4 : PatternMatches(t)[k] = NoMatch THEN 0
    ELSE Least({k \in 1..4 : PatternMatches(t)[k] # NoMatch})

\* the groups g of pattern k written as that pattern's branch writes them
Reformatted(k, g) ==
    CASE k = 1 -> g[1] \o <<" ">> \o g[2] \o <<" ">> \o g[3]
      [] k = 2 -> g[2] \o <<" ">> \o g[1] \o <<" ">> \o g[3]
      [] k = 3 -> ZFill(g[2], 2) \o <<"/">> \o ZFill(g[1], 2) \o <<"/">> \o g[3]
      [] k = 4 -> g[3] \o <<"/">> \o g[2] \o <<"/">> \o g[1]

\* C27: _clean_date returns the reformatting of what the first of the
\* patterns D Mon YYYY, Mon D, YYYY, M/D/YYYY, YYYY-M-D, in this order,
\* finds in the cleaned text, whichever of them matches further left; it
\* returns the cleaned text when none matches; and it does not raise.
C27_FirstPatternWins ==
    parser = "_clean_date" =>
        /\ parser_res # Raise
        /\ FirstPattern(CleanText(parser_arg)) = 0 => parser_res = CleanText(parser_arg)
        /\ FirstPattern(CleanText(parser_arg)) # 0 =>
               parser_res = Reformatted(FirstPattern(CleanText(parser_arg)),
                                        PatternMatches(CleanText(parser_arg))[FirstPattern(CleanText(parser_arg))])

\* the text holds a M/D/YYYY date and then a D Mon YYYY date: the second is returned
C27_Witness ==
    /\ parser = "_clean_date"
    /\ parser_arg = <<"1", "/", "1", "5", "/", "2", "0", "2", "4", " ", "1", "5", " ", "J", "a", "n", " ", "2", "0", "2", "4">>
    /\ parser_res = <<"1", "5", " ", "J", "a", "n", " ", "2", "0", "2", "4">>

\* a text no pattern matches comes back cleaned
C27_WitnessNoMatch ==
    /\ parser = "_clean_date"
    /\ parser_arg = <<"1", "5", " ", "J", "a", "n", "u", "a", "r", "y", " ", "2", "0", "2", "4">>
    /\ parser_res = parser_arg

-----------------------------------------------------------------------------
(* Claims about the raw file after the scrape phase *)

\* C28: whenever the scrape phase has reported success, the raw file exists
\* and holds exactly the records scraped in this run, also when writing the
\* file failed.
C28_RawFileHoldsScrapedRecords ==
    scrape_ok = "ok" => (raw_file.exists /\ raw_file.data = scraped_data)

-----------------------------------------------------------------------------
(* Claims about repeated scrape_data calls *)

\* C29: when a scrape_data call has returned, the list it returned, and
\* self.scraped_data, from which the raw file is written, hold as many
\* records as the pages of this call yielded, which is the count the
\* max_entries test used; records of an earlier call are not among them.
C29_ReturnsThisCallsRecords ==
    scr_pc = "done" =>
        /\ returned_len = total_entries
        /\ robots_ok => scraped_len = total_entries

-----------------------------------------------------------------------------
(* Claims about a clean phase that admits nothing *)

\* the cleaner has returned to the clean phase with no record admitted
NothingAdmitted == pipe_pc = "cleaning" /\ clean_pc = "idle" /\ cleaned_data = <<>>

\* C30: when the cleaner admits no record, the clean phase returns failure
\* and run_full_pipeline returns False; the cleaned file is written by no
\* step of such a run, so a file left by an earlier run stays as it was;
\* and no report phase runs after a clean phase that failed.
C30_NothingAdmittedFails ==
    /\ [][(NothingAdmitted /\ pipe_pc' # pipe_pc) =>
              /\ clean_ok' = "fail"
              /\ pipe_pc' = "done"
              /\ result' = "False"
              /\ clean_file' = clean_file
              /\ report_file' = report_file]_vars
    /\ [][clean_file' # clean_file => (cleaned_data # <<>> /\ clean_ok' = "ok")]_vars
    /\ [](clean_ok = "fail" =>
              /\ pipe_pc = "done"
              /\ report_ok = "none"
              /\ report_file = NoFile
              /\ \A i \in 1..Len(phase_log) : phase_log[i] # "REPORTING")

\* the pipeline ended after a clean phase that dropped both scraped records;
\* the cleaned file of an earlier run is still there
C30_Witness ==
    /\ pipe_pc = "done"
    /\ scrape_ok = "ok"
    /\ clean_ok = "fail"
    /\ Len(raw_data) = 2
    /\ raw_file.data = scraped_data
    /\ cleaned_data = <<>>
    /\ clean_file \in StaleCleanFiles \ {NoFile}
    /\ result = "False"

\* the same after a clean phase that read an empty raw file
C30_WitnessEmptyRawFile ==
    /\ pipe_pc = "done"
    /\ scrape_ok = "ok"
    /\ clean_ok = "fail"
    /\ raw_file = FileOf(<<>>)
    /\ clean_pc = "idle"
    /\ clean_calls = 1
    /\ raw_data = <<>>
    /\ clean_file \in StaleCleanFiles \ {NoFile}

=============================================================================
